---------------------------- MODULE Spec2Model ----------------------------
(***************************************************************************)
(* Model of the intelligence subsystem of android-ad-scanner:              *)
(* the rule-based risk engine, the z-score anomaly detector, the score     *)
(* fusion of IntelligentScanPipeline.scan_package, the IOC matcher and the *)
(* ThreatIntelDB store (IOC catalogue, baseline, labels, scan log).        *)
(*                                                                         *)
(* Numbers.  Scores, means, standard deviations and z values are kept in   *)
(* fixed point, in hundredths (7500 is 75.00).  A model probability is     *)
(* kept in millionths (predict_proba rounds to 6 decimals).  round(x, 2)   *)
(* is RoundHalfEven(x, 100): nearest hundredth, ties to even.              *)
(*                                                                         *)
(* Text.  A text is a sequence of atoms; an atom is an indivisible piece   *)
(* of text (a character or a word).  "s in t" is contiguous-subsequence    *)
(* search, str.lower() maps atoms to their lower-case atom, str.strip()    *)
(* removes leading and trailing blank atoms.                               *)
(***************************************************************************)
EXTENDS Integers, Sequences, FiniteSets, TLC

VARIABLES
    ioc_signatures,   \* table ioc_signatures: sequence of rows in rowid order
    model_baseline,   \* table model_baseline: set of rows, one per feature_name
    scan_labels,      \* table scan_labels: set of rows
    scan_sessions,    \* table scan_sessions: sequence of rows, id = position
    ml_models,        \* table ml_models: sequence of rows, id = position
    ml_model,         \* IntelligentScanPipeline.ml_model (None or a model)
    ioc_files,        \* the IOC files on disk: path -> content, None if absent
    now,              \* the wall clock, in seconds
    ret,              \* what the last operation returned (or raised)
    last_ingest,      \* history: identity -> the fields of its last ingest
    last_labeling,    \* history: scan id -> its last accepted labeling
    call              \* the arguments of a direct call of a pure function

vars == <<ioc_signatures, model_baseline, scan_labels, scan_sessions, ml_models,
          ml_model, ioc_files, now, ret, last_ingest, last_labeling, call>>

None == [tag |-> "None"]

\* None where the value is otherwise a number (scores, ids and versions are >= 0)
NoneNum == 0 - 1

Min(a, b) == IF a <= b THEN a ELSE b

Max(a, b) == IF a >= b THEN a ELSE b

Abs(a) == IF a >= 0 THEN a ELSE 0 - a

RECURSIVE SeqSum(_)
SeqSum(s) == IF s = <<>> THEN 0 ELSE Head(s) + SeqSum(Tail(s))

RECURSIVE SeqMax(_)
SeqMax(s) == IF s = <<>> THEN 0 ELSE Max(Head(s), SeqMax(Tail(s)))

\* round(n / d) to the nearest integer, ties to even (Python's round), n >= 0
RoundHalfEven(n, d) ==
    LET q == n \div d
        r == n % d
    IN  IF 2 * r < d THEN q
        ELSE IF 2 * r > d THEN q + 1
        ELSE IF q % 2 = 0 THEN q ELSE q + 1

RECURSIVE SqrtSearch(_, _, _)
SqrtSearch(n, lo, hi) ==
    IF lo >= hi THEN lo
    ELSE LET mid == (lo + hi + 1) \div 2
         IN  IF mid * mid <= n THEN SqrtSearch(n, mid, hi)
             ELSE SqrtSearch(n, lo, mid - 1)

\* math.sqrt / ** 0.5 at the model's resolution: the integer square root
ISqrt(n) == SqrtSearch(n, 0, 46340)

(***************************************************************************)
(* models.py: FeatureVector                                                *)
(***************************************************************************)
NUMERIC_FIELDS ==
    <<"permissions_total", "suspicious_permissions_count",
      "dangerous_permissions_count", "ad_sdk_hits", "tracker_hits",
      "suspicious_keyword_hits">>

\* installer strings the model draws from, and what the code's tests say of them
InstallerHasUnknown(installer) == installer \in {"unknown", "UNKNOWN.market"}

InstallerIsBlank(installer) == installer \in {"", " "}

FeatureVector(pkg, installer, susp, dang, ad, tr, kw, boot, acc, ovl, inst, ws, hash, size) ==
    [package_name |-> pkg, installer |-> installer, install_path |-> "unknown",
     permissions_total |-> dang,
     suspicious_permissions_count |-> susp,
     dangerous_permissions_count |-> dang,
     ad_sdk_hits |-> ad, tracker_hits |-> tr, suspicious_keyword_hits |-> kw,
     boot_receiver_detected |-> boot,
     accessibility_binding_detected |-> acc,
     overlay_permission_detected |-> ovl,
     install_packages_permission_detected |-> inst,
     write_settings_detected |-> ws,
     apk_hash_present |-> hash, apk_size_kb |-> size]

\* a reason string; a and b are the numbers an f-string puts into it
Reason(msg, a, b) == [msg |-> msg, a |-> a, b |-> b]

(***************************************************************************)
(* risk_engine.py: RuleBasedRiskEngine                                     *)
(***************************************************************************)
score_to_level_off_by_one(score) ==
    IF score > 7500 THEN "CRITICAL"
    ELSE IF score > 5500 THEN "HIGH"
    ELSE IF score > 3000 THEN "MEDIUM"
    ELSE "LOW"

score_to_level(score) ==
    IF score >= 7500 THEN "CRITICAL"
    ELSE IF score >= 5500 THEN "HIGH"
    ELSE IF score >= 3000 THEN "MEDIUM"
    ELSE "LOW"

\* the conditions of evaluate, in source order: <<triggered, weight, reason>>
RiskRules(features, n_ioc) ==
    << <<features.suspicious_permissions_count >= 3, 28,
         Reason("Multiples permisos de alto riesgo detectados", 0, 0)>>,
       <<features.suspicious_permissions_count < 3 /\ features.suspicious_permissions_count > 0, 14,
         Reason("Permisos de alto riesgo presentes", 0, 0)>>,
       <<features.overlay_permission_detected # 0, 10,
         Reason("Permiso de superposicion detectado (SYSTEM_ALERT_WINDOW)", 0, 0)>>,
       <<features.accessibility_binding_detected # 0, 14,
         Reason("Capacidad de binding de servicio de accesibilidad", 0, 0)>>,
       <<features.install_packages_permission_detected # 0, 12,
         Reason("Capacidad de instalar paquetes detectada", 0, 0)>>,
       <<features.write_settings_detected # 0, 10,
         Reason("Capacidad de modificar ajustes del sistema", 0, 0)>>,
       <<features.boot_receiver_detected # 0, 8,
         Reason("Persistencia potencial al arranque detectada", 0, 0)>>,
       <<features.ad_sdk_hits >= 4, 15,
         Reason("Alta densidad de librerias SDK de anuncios/tracking", 0, 0)>>,
       <<features.ad_sdk_hits < 4 /\ features.ad_sdk_hits > 0, 6,
         Reason("Presencia de SDK de anuncios/tracking", 0, 0)>>,
       <<features.tracker_hits >= 3, 10,
         Reason("Multiples indicadores de tracking en metadatos", 0, 0)>>,
       <<features.tracker_hits < 3 /\ features.tracker_hits > 0, 5,
         Reason("Indicadores de tracking en metadatos", 0, 0)>>,
       <<features.suspicious_keyword_hits >= 2, 6,
         Reason("Keywords sensibles detectadas en informacion de paquete", 0, 0)>>,
       <<features.dangerous_permissions_count >= 8, 12,
         Reason("Superficie de permisos peligrosos muy alta", 0, 0)>>,
       <<features.dangerous_permissions_count < 8 /\ features.dangerous_permissions_count >= 4, 6,
         Reason("Superficie de permisos peligrosos elevada", 0, 0)>>,
       <<n_ioc > 0, Min(32, 8 * n_ioc),
         Reason("Coincidencias IOC activas", n_ioc, 0)>>,
       <<InstallerHasUnknown(features.installer) \/ InstallerIsBlank(features.installer), 6,
         Reason("Instalador desconocido o no confiable", 0, 0)>> >>

RECURSIVE RiskFold(_, _, _)
RiskFold(rules, score, reasons) ==
    IF rules = <<>> THEN [score |-> score, reasons |-> reasons]
    ELSE LET rule == Head(rules)
         IN  IF rule[1]
             THEN RiskFold(Tail(rules), score + rule[2], Append(reasons, rule[3]))
             ELSE RiskFold(Tail(rules), score, reasons)

risk_evaluate_uncapped(features, ioc_matches) ==
    LET acc == RiskFold(RiskRules(features, Len(ioc_matches)), 0, <<>>)
        score == 100 * acc.score
    IN  [score |-> score, level |-> score_to_level(score), reasons |-> acc.reasons]

\* RuleBasedRiskEngine.evaluate
risk_evaluate(features, ioc_matches) ==
    LET acc == RiskFold(RiskRules(features, Len(ioc_matches)), 0, <<>>)
        score == Min(10000, 100 * acc.score)
    IN  [score |-> score, level |-> score_to_level(score), reasons |-> acc.reasons]

(***************************************************************************)
(* anomaly.py: ZScoreAnomalyDetector                                       *)
(***************************************************************************)
BaselineStats(means, stds, sample_size) ==
    [means |-> means, stds |-> stds, sample_size |-> sample_size]

\* dict.get(key, default)
DictGet(d, key, default) == IF key \in DOMAIN d THEN d[key] ELSE default

\* the z value of one field, in hundredths; std <= 1e-9 is std = 0 here
ZValueSentinel2(value, mean, std) ==
    IF std <= 0
    THEN IF 100 * value = mean THEN 0 ELSE 200
    ELSE (100 * Abs(100 * value - mean)) \div std

ZValue(value, mean, std) ==
    IF std <= 0
    THEN IF 100 * value = mean THEN 0 ELSE 300
    ELSE (100 * Abs(100 * value - mean)) \div std

ZValues(features, baseline) ==
    [i \in 1..Len(NUMERIC_FIELDS) |->
        ZValue(features[NUMERIC_FIELDS[i]],
               DictGet(baseline.means, NUMERIC_FIELDS[i], 0),
               DictGet(baseline.stds, NUMERIC_FIELDS[i], 0))]

anomaly_evaluate_min_7(features, baseline) ==
    IF baseline = None \/ baseline.sample_size < 7 THEN None
    ELSE LET z_values == ZValues(features, baseline)
             zmax == SeqMax(z_values)
             l2 == ISqrt(SeqSum([i \in DOMAIN z_values |-> z_values[i] * z_values[i]]))
         IN  [score |-> Min(10000, 18 * zmax + 4 * l2), zmax |-> zmax]

\* ZScoreAnomalyDetector.evaluate; z and the L2 norm are truncated to hundredths,
\* where the code rounds the weighted sum to 2 decimals and zmax to 4
anomaly_evaluate(features, baseline) ==
    IF baseline = None \/ baseline.sample_size < 8 THEN None
    ELSE LET z_values == ZValues(features, baseline)
             zmax == SeqMax(z_values)
             l2 == ISqrt(SeqSum([i \in DOMAIN z_values |-> z_values[i] * z_values[i]]))
         IN  [score |-> Min(10000, 18 * zmax + 4 * l2), zmax |-> zmax]

(***************************************************************************)
(* ml_model.py: SupervisedRiskModel.  A model is [version, params]; the    *)
(* scaler, weights and bias are abstracted to a named parameter set, and   *)
(* predict_proba is the table of what sigmoid(bias + w.x), rounded to 6    *)
(* decimals, yields for it (in millionths).                                *)
(***************************************************************************)
SupervisedRiskModel(version, params) == [version |-> version, params |-> params]

predict_proba(model, features) ==
    CASE model.params = "zero_weights" -> 500000
      [] model.params = "saturated" ->
            IF features.suspicious_permissions_count > 0 THEN 1000000 ELSE 0
      [] model.params = "p285600" -> 285600
      [] model.params = "p123456" -> 123456
      [] OTHER -> 500000

(***************************************************************************)
(* pipeline.py: scan_package, lines 161-208 (scoring, fusion, the result)  *)
(***************************************************************************)
\* lines 165-180: the ML blend
Blend(risk, model, features) ==
    IF model # None
    THEN LET ml_score == RoundHalfEven(predict_proba(model, features), 100)
             blended == 65 * risk.score + 35 * ml_score
         IN  [risk_score |-> RoundHalfEven(Min(1000000, blended), 100),
              ml_score |-> ml_score,
              model_version |-> model.version,
              reasons |-> Append(risk.reasons,
                                 Reason("Modelo ML sugiere riesgo", model.version, ml_score))]
    ELSE [risk_score |-> risk.score, ml_score |-> NoneNum, model_version |-> NoneNum,
          reasons |-> risk.reasons]

AnomalyBonusUncapped(risk_score, reasons, anomaly) ==
    IF anomaly # None /\ anomaly.score >= 7000
    THEN [risk_score |-> risk_score + 1200,
          reasons |-> Append(reasons,
                             Reason("Anomalia estadistica alta", anomaly.score, anomaly.zmax))]
    ELSE [risk_score |-> risk_score, reasons |-> reasons]

\* lines 185-187: the anomaly bonus
AnomalyBonus(risk_score, reasons, anomaly) ==
    IF anomaly # None /\ anomaly.score >= 7000
    THEN [risk_score |-> Min(10000, risk_score + 1200),
          reasons |-> Append(reasons,
                             Reason("Anomalia estadistica alta", anomaly.score, anomaly.zmax))]
    ELSE [risk_score |-> risk_score, reasons |-> reasons]

IntelligentScanResult(device_id, package_name, timestamp, features, ioc_matches, attack_techniques, component_fingerprint, model, baseline) ==
    LET risk == risk_evaluate(features, ioc_matches)
        anomaly == anomaly_evaluate(features, baseline)
        blend == Blend(risk, model, features)
        reasons1 == IF attack_techniques # <<>>
                    THEN Append(blend.reasons,
                                Reason("Mapeo ATT&CK Mobile inferido", Len(attack_techniques), 0))
                    ELSE blend.reasons
        fused == AnomalyBonus(blend.risk_score, reasons1, anomaly)
    IN  [scan_id |-> NoneNum,
         device_id |-> device_id,
         package_name |-> package_name,
         timestamp_utc |-> timestamp,
         feature_vector |-> features,
         risk_score |-> fused.risk_score,
         risk_level |-> score_to_level(fused.risk_score),
         anomaly_score |-> IF anomaly # None THEN anomaly.score ELSE NoneNum,
         anomaly_zmax |-> IF anomaly # None THEN anomaly.zmax ELSE NoneNum,
         ml_risk_score |-> blend.ml_score,
         ml_model_version |-> blend.model_version,
         component_fingerprint |-> component_fingerprint,
         reasons |-> fused.reasons,
         ioc_matches |-> ioc_matches,
         attack_techniques |-> attack_techniques]

(***************************************************************************)
(* Text: str.lower, str.strip, "in", "\n".join                             *)
(***************************************************************************)
Lower(atom) ==
    CASE atom = "A" -> "a"
      [] atom = "B" -> "b"
      [] atom = "H1" -> "h1"
      [] atom = "Com.A" -> "com.a"
      [] atom = "android\\.permission\\.BIND_ACCESSIBILITY_SERVICE" ->
             "android\\.permission\\.bind_accessibility_service"
      [] atom = "Receiver" -> "receiver"
      [] atom = "Exported=True" -> "exported=true"
      [] atom = "Exported\\=\\True" -> "exported\\=\\true"
      [] atom = "android.permission.READ_LOGS" -> "android.permission.read_logs"
      [] atom = "android.permission.INTERNET" -> "android.permission.internet"
      [] atom = "android.permission.SYSTEM_ALERT_WINDOW" -> "android.permission.system_alert_window"
      [] atom = "android.permission.BIND_ACCESSIBILITY_SERVICE" ->
             "android.permission.bind_accessibility_service"
      [] atom = "android.permission.RECEIVE_BOOT_COMPLETED" ->
             "android.permission.receive_boot_completed"
      [] OTHER -> atom

LowerText(text) == [i \in DOMAIN text |-> Lower(text[i])]

IsBlank(atom) == atom \in {" ", "\n"}

RECURSIVE LStrip(_)
LStrip(text) ==
    IF text # <<>> /\ IsBlank(Head(text)) THEN LStrip(Tail(text)) ELSE text

RECURSIVE RStrip(_)
RStrip(text) ==
    IF text # <<>> /\ IsBlank(text[Len(text)])
    THEN RStrip(SubSeq(text, 1, Len(text) - 1)) ELSE text

Strip(text) == RStrip(LStrip(text))

\* s in text
Contains(text, s) ==
    \E i \in 0..(Len(text) - Len(s)) : SubSeq(text, i + 1, i + Len(s)) = s

\* a piece of text occurs inside one atom: marker in atom
AtomHas(atom, marker) ==
    CASE marker = "admob" -> atom \in {"admob"}
      [] marker = "applovin" -> atom \in {"applovin"}
      [] marker = "analytics" -> atom \in {"analytics"}
      [] marker = "track" -> atom \in {"track"}
      [] marker = "silent" -> atom \in {"silentinstall"}
      [] marker = "accessibility" ->
             atom \in {"android.permission.bind_accessibility_service"}
      [] marker = "bind_accessibility_service" ->
             atom \in {"android.permission.bind_accessibility_service"}
      [] marker = "system_alert_window" ->
             atom \in {"android.permission.system_alert_window"}
      [] marker = "receive_boot_completed" ->
             atom \in {"android.permission.receive_boot_completed"}
      [] marker = "service" ->
             atom \in {"android.permission.bind_accessibility_service", "service"}
      [] marker = "receiver" -> atom \in {"receiver"}
      [] marker = "activity" -> atom \in {"activity"}
      [] marker = "provider" -> atom \in {"provider"}
      [] OTHER -> FALSE

\* marker in text, for a marker that lies inside one atom
HasMarker(text, marker) == \E i \in DOMAIN text : AtomHas(text[i], marker)

Count(markers, text) == Cardinality({m \in markers : HasMarker(text, m)})

(***************************************************************************)
(* pipeline.py: the marker catalogues and _build_features                  *)
(***************************************************************************)
AD_TECH_MARKERS ==
    {"admob", "applovin", "unityads", "appsflyer", "facebook ads", "ironsource",
     "chartboost", "mintegral", "mbridge", "tiktokads"}

TRACKER_MARKERS ==
    {"analytics", "track", "telemetry", "fingerprint", "referrer", "attribution"}

SUSPICIOUS_KEYWORDS ==
    {"accessibility", "overlay", "autostart", "silent", "background install",
     "receiver", "unknown source"}

HIGH_RISK_PERMISSIONS ==
    {"android.permission.SYSTEM_ALERT_WINDOW",
     "android.permission.BIND_ACCESSIBILITY_SERVICE",
     "android.permission.REQUEST_INSTALL_PACKAGES",
     "android.permission.WRITE_SETTINGS",
     "android.permission.PACKAGE_USAGE_STATS",
     "android.permission.READ_LOGS"}

\* the atoms DANGEROUS_PERMISSION_PATTERN matches: android\.permission\.[A-Z0-9_]+
PermissionAtoms ==
    {"android.permission.READ_LOGS", "android.permission.INTERNET",
     "android.permission.SYSTEM_ALERT_WINDOW",
     "android.permission.BIND_ACCESSIBILITY_SERVICE",
     "android.permission.RECEIVE_BOOT_COMPLETED",
     "android.permission.REQUEST_INSTALL_PACKAGES",
     "android.permission.WRITE_SETTINGS",
     "android.permission.PACKAGE_USAGE_STATS"}

\* DANGEROUS_PERMISSION_PATTERN.findall(dumpsys): the matches in order of appearance
findall_permissions(dumpsys) == SelectSeq(dumpsys, LAMBDA atom : atom \in PermissionAtoms)

\* sorted(set(DANGEROUS_PERMISSION_PATTERN.findall(dumpsys))): a sorted list without
\* repetitions is determined by its set of members
FindPermissions(dumpsys) == {dumpsys[i] : i \in DOMAIN dumpsys} \cap PermissionAtoms

\* re.search(r"installer=([^\s]+)", installer_raw): the atom after "installer="
ParseInstaller(installer_raw) ==
    LET hits == {i \in 1..(Len(installer_raw) - 1) :
                    installer_raw[i] = "installer=" /\ ~IsBlank(installer_raw[i + 1])}
    IN  IF hits = {} THEN "unknown"
        ELSE installer_raw[(CHOOSE i \in hits : \A j \in hits : i <= j) + 1]

\* re.search(r"package:(.+)", pm_path): the atom after "package:"
ParseInstallPath(pm_path) ==
    LET hits == {i \in 1..(Len(pm_path) - 1) :
                    pm_path[i] = "package:" /\ ~IsBlank(pm_path[i + 1])}
    IN  IF hits = {} THEN "unknown"
        ELSE pm_path[(CHOOSE i \in hits : \A j \in hits : i <= j) + 1]

build_features(snapshot, package_name) ==
    LET permissions == FindPermissions(snapshot.dumpsys_package)
        lowered == LowerText(snapshot.dumpsys_package)
        Flag(marker) == IF HasMarker(lowered, marker) THEN 1 ELSE 0
    IN  [package_name |-> package_name,
         installer |-> ParseInstaller(snapshot.pm_installer),
         install_path |-> ParseInstallPath(snapshot.pm_path),
         permissions_total |-> Cardinality(permissions),
         suspicious_permissions_count |-> Cardinality(permissions \cap HIGH_RISK_PERMISSIONS),
         dangerous_permissions_count |-> Cardinality(permissions),
         ad_sdk_hits |-> Count(AD_TECH_MARKERS, lowered),
         tracker_hits |-> Count(TRACKER_MARKERS, lowered),
         suspicious_keyword_hits |-> Count(SUSPICIOUS_KEYWORDS, lowered),
         boot_receiver_detected |-> Flag("receive_boot_completed"),
         accessibility_binding_detected |-> Flag("bind_accessibility_service"),
         overlay_permission_detected |-> Flag("system_alert_window"),
         install_packages_permission_detected |-> Flag("request_install_packages"),
         write_settings_detected |-> Flag("write_settings"),
         apk_hash_present |-> IF Strip(snapshot.apk_sha256) # <<>> THEN 1 ELSE 0,
         apk_size_kb |-> IF snapshot.apk_size_bytes > 0
                         THEN RoundHalfEven(100 * snapshot.apk_size_bytes, 1024) ELSE 0]

(***************************************************************************)
(* pipeline.py: _extract_component_summary, _build_component_fingerprint   *)
(***************************************************************************)
\* dumpsys.splitlines()
RECURSIVE SplitLines(_, _)
SplitLines(text, line) ==
    IF text = <<>> THEN (IF line = <<>> THEN <<>> ELSE <<line>>)
    ELSE IF Head(text) = "\n" THEN <<line>> \o SplitLines(Tail(text), <<>>)
    ELSE SplitLines(Tail(text), Append(line, Head(text)))

\* the atoms EXPORTED_TRUE_PATTERN matches.  The pattern is the raw string
\* r"exported\\s*=\\s*true": a literal backslash, then s*, on each side of "="
ExportedTrueAtoms == {"exported\\=\\true", "exported\\s=\\strue"}

extract_component_summary(snapshot) ==
    LET dumpsys == snapshot.dumpsys_package
        lowered == LowerText(dumpsys)
        lines == SplitLines(lowered, <<>>)
        Hits(marker) == Cardinality({i \in DOMAIN lines : HasMarker(lines[i], marker)})
    IN  [receiver_hits |-> Hits("receiver"),
         service_hits |-> Hits("service"),
         activity_hits |-> Hits("activity"),
         provider_hits |-> Hits("provider"),
         exported_true_hits |->
             Cardinality({i \in DOMAIN dumpsys : lowered[i] \in ExportedTrueAtoms}),
         has_boot_receiver |-> IF HasMarker(lowered, "receive_boot_completed") THEN 1 ELSE 0,
         has_notification_listener |->
             IF HasMarker(lowered, "bind_notification_listener_service") THEN 1 ELSE 0,
         has_accessibility_binding |->
             IF HasMarker(lowered, "bind_accessibility_service") THEN 1 ELSE 0]

\* sha256 of the canonical JSON, taken to be injective: the digest is the
\* canonical payload itself (sorted keys, sorted permission list)
build_component_fingerprint(package_name, snapshot, component_summary) ==
    [package_name |-> package_name,
     permissions |-> FindPermissions(snapshot.dumpsys_package),
     component_summary |-> component_summary,
     apk_sha256 |-> snapshot.apk_sha256,
     apk_remote_path |-> snapshot.apk_remote_path]

(***************************************************************************)
(* attack_mapping.py: infer_attack_techniques (the technique ids)          *)
(***************************************************************************)
infer_attack_techniques(features, dumpsys_text) ==
    LET lowered == LowerText(dumpsys_text)
        If(cond, id) == IF cond THEN <<id>> ELSE <<>>
    IN  If(features.accessibility_binding_detected # 0, "T1453")
        \o If(features.boot_receiver_detected # 0, "T1624.001")
        \o If(features.overlay_permission_detected # 0, "T1417.002")
        \o If(features.suspicious_permissions_count > 0, "T1636")
        \o If(HasMarker(lowered, "bind_notification_listener_service"), "T1517")
        \o If(HasMarker(lowered, "bind_device_admin") \/ HasMarker(lowered, "device_admin"),
              "T1626")

(***************************************************************************)
(* pipeline.py: _match_iocs                                                *)
(***************************************************************************)
\* str(row["ioc_type"]).strip().lower()
NormType(ioc_type) ==
    CASE ioc_type \in {"Keyword", " keyword"} -> "keyword"
      [] ioc_type = "REGEX" -> "regex"
      [] OTHER -> ioc_type

\* str(value).strip().lower()
NormValue(value) == LowerText(Strip(value))

\* re.compile raises re.error: the pattern holds an unbalanced "("
RegexMalformed(pattern) == \E i \in DOMAIN pattern : pattern[i] = "("

\* the text a pattern atom matches: an escaped atom matches its plain text
RegexLiteral(atom) ==
    IF atom = "android\\.permission\\.bind_accessibility_service"
    THEN "android.permission.bind_accessibility_service" ELSE atom

\* re.search(pattern, corpus, re.IGNORECASE) for a pattern of literal atoms
RegexSearch(pattern, corpus) ==
    Contains(LowerText(corpus), [i \in DOMAIN pattern |-> RegexLiteral(Lower(pattern[i]))])

\* the corpus: "\n".join([dumpsys_package, pm_path, pm_installer]).lower()
Corpus(snapshot) ==
    LowerText(snapshot.dumpsys_package \o <<"\n">> \o snapshot.pm_path
              \o <<"\n">> \o snapshot.pm_installer)

\* the loop body without the try/except around re.search: the pattern text is
\* searched as it stands
MatchRowLiteralRegex(row, corpus, apk_sha256) ==
    LET ioc_type == NormType(row.ioc_type)
        value == NormValue(row.value)
    IN  IF value = <<>> THEN <<>>
        ELSE IF ioc_type \in {"hash_sha256", "sha256"}
        THEN IF apk_sha256 # <<>> /\ value = apk_sha256
             THEN << <<"sha256:">> \o value >> ELSE <<>>
        ELSE IF ioc_type = "regex"
        THEN IF RegexSearch(value, corpus) THEN <<value>> ELSE <<>>
        ELSE IF Contains(corpus, value) THEN <<value>> ELSE <<>>

\* one pass of the loop over the active rows: the matches the row appends
MatchRow(row, corpus, apk_sha256) ==
    LET ioc_type == NormType(row.ioc_type)
        value == NormValue(row.value)
    IN  IF value = <<>> THEN <<>>
        ELSE IF ioc_type \in {"hash_sha256", "sha256"}
        THEN IF apk_sha256 # <<>> /\ value = apk_sha256
             THEN << <<"sha256:">> \o value >> ELSE <<>>
        ELSE IF ioc_type = "regex"
        THEN IF RegexMalformed(value) THEN <<>>
             ELSE IF RegexSearch(value, corpus) THEN <<value>> ELSE <<>>
        ELSE IF Contains(corpus, value) THEN <<value>> ELSE <<>>

RECURSIVE MatchRows(_, _, _)
MatchRows(rows, corpus, apk_sha256) ==
    IF rows = <<>> THEN <<>>
    ELSE MatchRow(Head(rows), corpus, apk_sha256)
         \o MatchRows(Tail(rows), corpus, apk_sha256)

\* intel_db.py: get_active_iocs: SELECT ... WHERE active=1
get_active_iocs_all(table) == table

get_active_iocs(table) == SelectSeq(table, LAMBDA row : row.active = 1)

match_iocs(snapshot, table) ==
    MatchRows(get_active_iocs(table), Corpus(snapshot),
              NormValue(snapshot.apk_sha256))

(***************************************************************************)
(* intel_db.py: ThreatIntelDB                                              *)
(***************************************************************************)
\* upsert_iocs, lines 99-107: the columns parsed from one input row
ParseIocRow(row) ==
    [ioc_type |-> NormType(row.ioc_type),
     value |-> NormValue(row.value),
     severity |-> row.severity,
     confidence |-> row.confidence,
     source |-> IF row.source \in {"", " "} THEN "local" ELSE row.source,
     active |-> IF row.active THEN 1 ELSE 0]

\* INSERT without the ON CONFLICT clause
UpsertOneAppend(table, r, t) ==
    Append(table, [ioc_type |-> r.ioc_type, value |-> r.value,
                   severity |-> r.severity, confidence |-> r.confidence,
                   source |-> r.source, active |-> r.active,
                   created_at |-> t, updated_at |-> t])

\* DO UPDATE SET without active=excluded.active
UpsertOneKeepActive(table, r, t) ==
    IF \E i \in DOMAIN table : table[i].ioc_type = r.ioc_type /\ table[i].value = r.value
    THEN [i \in DOMAIN table |->
            IF table[i].ioc_type = r.ioc_type /\ table[i].value = r.value
            THEN [table[i] EXCEPT !.severity = r.severity,
                                  !.confidence = r.confidence,
                                  !.source = r.source,
                                  !.updated_at = t]
            ELSE table[i]]
    ELSE UpsertOneAppend(table, r, t)

\* INSERT INTO ioc_signatures ... ON CONFLICT(ioc_type, value) DO UPDATE SET ...
UpsertOne(table, r, t) ==
    IF \E i \in DOMAIN table : table[i].ioc_type = r.ioc_type /\ table[i].value = r.value
    THEN [i \in DOMAIN table |->
            IF table[i].ioc_type = r.ioc_type /\ table[i].value = r.value
            THEN [table[i] EXCEPT !.severity = r.severity,
                                  !.confidence = r.confidence,
                                  !.source = r.source,
                                  !.active = r.active,
                                  !.updated_at = t]
            ELSE table[i]]
    ELSE Append(table, [ioc_type |-> r.ioc_type, value |-> r.value,
                        severity |-> r.severity, confidence |-> r.confidence,
                        source |-> r.source, active |-> r.active,
                        created_at |-> t, updated_at |-> t])

\* the loop of upsert_iocs: the table and the count after the rows
RECURSIVE UpsertLoop(_, _, _, _)
UpsertLoop(rows, table, upserted, t) ==
    IF rows = <<>> THEN [table |-> table, upserted |-> upserted]
    ELSE LET r == ParseIocRow(Head(rows))
         IN  IF r.value = <<>>
             THEN UpsertLoop(Tail(rows), table, upserted, t)
             ELSE UpsertLoop(Tail(rows), UpsertOne(table, r, t), upserted + 1, t)

upsert_iocs_count_all(rows, table, t) ==
    [table |-> UpsertLoop(rows, table, 0, t).table, upserted |-> Len(rows)]

upsert_iocs(rows, table, t) ==
    IF rows = <<>> THEN [table |-> table, upserted |-> 0]
    ELSE UpsertLoop(rows, table, 0, t)

\* store_scan: the row inserted for a result; its id is the next rowid
ScanRow(result, raw_snapshot) ==
    [created_at |-> result.timestamp_utc,
     device_id |-> result.device_id,
     package_name |-> result.package_name,
     risk_score |-> result.risk_score,
     risk_level |-> result.risk_level,
     anomaly_score |-> result.anomaly_score,
     anomaly_zmax |-> result.anomaly_zmax,
     reasons |-> result.reasons,
     ioc_matches |-> result.ioc_matches,
     features |-> result.feature_vector,
     raw_snapshot |-> raw_snapshot]

\* an insert that takes the place of the newest row
store_scan_overwrite(table, result, raw_snapshot) ==
    IF table = <<>> THEN <<ScanRow(result, raw_snapshot)>>
    ELSE [table EXCEPT ![Len(table)] = ScanRow(result, raw_snapshot)]

\* store_scan, lines 135-159: INSERT, the id is the AUTOINCREMENT rowid
store_scan(table, result, raw_snapshot) == Append(table, ScanRow(result, raw_snapshot))

\* get_latest_scan_id_for_package: ORDER BY created_at DESC, id DESC LIMIT 1
get_latest_scan_id_for_package(table, package_name) ==
    LET ids == {i \in DOMAIN table : table[i].package_name = package_name}
    IN  IF ids = {} THEN NoneNum
        ELSE CHOOSE i \in ids :
                \A j \in ids : \/ table[i].created_at > table[j].created_at
                               \/ table[i].created_at = table[j].created_at /\ i >= j

\* INSERT without the ON CONFLICT clause: the conflicting row is kept as well
set_scan_label_insert(table, scan_id, label, source, t) ==
    table \cup {[scan_id |-> scan_id, label |-> label, source |-> source, created_at |-> t]}

\* set_scan_label, lines 266-275: INSERT ... ON CONFLICT(scan_id) DO UPDATE
set_scan_label(table, scan_id, label, source, t) ==
    {r \in table : r.scan_id # scan_id}
        \cup {[scan_id |-> scan_id, label |-> label, source |-> source, created_at |-> t]}

\* load_baseline
load_baseline(table) ==
    IF table = {} THEN None
    ELSE BaselineStats(
            [name \in {r.feature_name : r \in table} |->
                (CHOOSE r \in table : r.feature_name = name).mean],
            [name \in {r.feature_name : r \in table} |->
                (CHOOSE r \in table : r.feature_name = name).std],
            CHOOSE n \in {r.sample_size : r \in table} :
                \A r \in table : n <= r.sample_size)

\* rebuild_baseline_from_history, lines 391-401: mean and std of one key over
\* the selected rows (a set of ids), in hundredths
RECURSIVE SumOver(_, _)
SumOver(ids, f) ==
    IF ids = {} THEN 0
    ELSE LET i == CHOOSE x \in ids : TRUE
         IN  f[i] + SumOver(ids \ {i}, f)

BaselineRow(key, ids, table, t) ==
    LET n == Cardinality(ids)
        sum == SumOver(ids, [i \in ids |-> table[i].features[key]])
        sumsq == SumOver(ids, [i \in ids |-> table[i].features[key] * table[i].features[key]])
    IN  [feature_name |-> key,
         mean |-> (100 * sum) \div n,
         std |-> ISqrt((10000 * (n * sumsq - sum * sum)) \div (n * Max(1, n - 1))),
         sample_size |-> n,
         updated_at |-> t]

\* the same query without its LIMIT clause
RecentSelectionsUnlimited(table, max_rows) == {DOMAIN table}

\* the rows SELECT ... ORDER BY created_at DESC LIMIT max_rows may return:
\* rows of equal created_at come in an order the query does not fix
RecentSelections(table, max_rows) ==
    LET k == Min(max_rows, Len(table))
    IN  {ids \in SUBSET (DOMAIN table) :
            /\ Cardinality(ids) = k
            /\ \A i \in ids : \A j \in (DOMAIN table) \ ids :
                   table[i].created_at >= table[j].created_at}

\* the oldest row of the log instead of the newest
get_first_ml_model(table) == IF table = <<>> THEN None ELSE table[1]

\* get_latest_ml_model: ORDER BY created_at DESC, id DESC LIMIT 1
get_latest_ml_model(table) ==
    IF table = <<>> THEN None
    ELSE table[CHOOSE i \in DOMAIN table :
                  \A j \in DOMAIN table :
                      \/ table[i].created_at > table[j].created_at
                      \/ table[i].created_at = table[j].created_at /\ i >= j]

\* pipeline.py: _load_latest_ml_model
load_latest_ml_model(table) ==
    LET row == get_latest_ml_model(table)
    IN  IF row = None THEN None ELSE row.model_payload

\* get_labeled_feature_rows, lines 281-285: the ids of the joined rows, in the
\* order s.created_at DESC, s.id DESC
RECURSIVE LabeledOrder(_, _)
LabeledOrder(ids, sessions) ==
    IF ids = {} THEN <<>>
    ELSE LET first == CHOOSE i \in ids :
                         \A j \in ids :
                             \/ sessions[i].created_at > sessions[j].created_at
                             \/ sessions[i].created_at = sessions[j].created_at /\ i >= j
         IN  <<first>> \o LabeledOrder(ids \ {first}, sessions)

\* get_labeled_feature_rows: INNER JOIN scan_labels, newest first, LIMIT max_rows
get_labeled_feature_rows(sessions, labels, max_rows) ==
    LET ids == {r.scan_id : r \in labels} \cap DOMAIN sessions
        order == LabeledOrder(ids, sessions)
    IN  [k \in 1..Min(max_rows, Len(order)) |->
            [scan_id |-> order[k], features |-> sessions[order[k]].features,
             label |-> (CHOOSE r \in labels : r.scan_id = order[k]).label]]

\* a fit that accepts 5 rows
fit_raises_below_5(rows) == Len(rows) < 5

\* SupervisedRiskModel.fit, lines 73-74: the insufficient-data error
fit_raises(rows) == Len(rows) < 8

\* store_ml_model: the row appended to the model-version log
store_ml_model(table, model, trained_samples, t) ==
    Append(table, [model_name |-> "supervised_risk_v1", model_version |-> model.version,
                   model_payload |-> model, trained_samples |-> trained_samples,
                   created_at |-> t])

\* _row_to_scan_record, lines 233-260: the record read from one row of
\* scan_sessions LEFT JOIN scan_labels
row_to_scan_record(sessions, labels, id) ==
    LET row == sessions[id]
        labeled == {r \in labels : r.scan_id = id}
    IN  [id |-> id,
         created_at |-> row.created_at,
         device_id |-> row.device_id,
         package_name |-> row.package_name,
         risk_score |-> row.risk_score,
         risk_level |-> row.risk_level,
         anomaly_score |-> row.anomaly_score,
         anomaly_zmax |-> row.anomaly_zmax,
         label |-> IF labeled = {} THEN NoneNum ELSE (CHOOSE r \in labeled : TRUE).label,
         reasons |-> row.reasons,
         ioc_matches |-> row.ioc_matches,
         features |-> row.features,
         raw_snapshot |-> row.raw_snapshot,
         attack_techniques |-> row.raw_snapshot.attack_techniques]

\* get_scan_records: ORDER BY s.created_at DESC, s.id DESC LIMIT limit
get_scan_records(sessions, labels, limit) ==
    LET order == LabeledOrder(DOMAIN sessions, sessions)
    IN  [k \in 1..Min(limit, Len(order)) |-> row_to_scan_record(sessions, labels, order[k])]

\* get_scan_records_by_ids: WHERE s.id IN (scan_ids), the same order, no limit
get_scan_records_by_ids(sessions, labels, scan_ids) ==
    LET order == LabeledOrder(scan_ids \cap DOMAIN sessions, sessions)
    IN  [k \in 1..Len(order) |-> row_to_scan_record(sessions, labels, order[k])]

(***************************************************************************)
(* campaigns.py: summarize_campaigns                                       *)
(***************************************************************************)
\* the order of Python's string comparison on the strings the model sorts
StrRank(s) ==
    CASE s = "A" -> 1
      [] s = "B" -> 2
      [] s = "Com.A" -> 3
      [] s = "T1417.002" -> 4
      [] s = "T1453" -> 5
      [] s = "T1517" -> 6
      [] s = "T1624.001" -> 7
      [] s = "T1626" -> 8
      [] s = "T1636" -> 9
      [] s = "com.a" -> 10
      [] s = "com.b" -> 11
      [] s = "com.c" -> 12
      [] s = "device-2" -> 13
      [] s = "emulator-5554" -> 14
      [] OTHER -> 15

RECURSIVE SortedSeq(_)
SortedSeq(S) ==
    IF S = {} THEN <<>>
    ELSE LET least == CHOOSE x \in S : \A y \in S : StrRank(x) <= StrRank(y)
         IN  <<least>> \o SortedSeq(S \ {least})

\* the distinct values of a list in the order of their first occurrence
RECURSIVE FirstSeen(_)
FirstSeen(values) ==
    IF values = <<>> THEN <<>>
    ELSE LET init == FirstSeen(SubSeq(values, 1, Len(values) - 1))
             last == values[Len(values)]
         IN  IF \E i \in DOMAIN init : init[i] = last THEN init ELSE Append(init, last)

\* the distinct values of a list, unsorted
unsorted_set(values) == FirstSeen(values)

\* sorted({...}) over the values of a list
sorted_set(values) == SortedSeq({values[i] : i \in DOMAIN values})

\* max() and min() of a non-empty list of timestamps
MaxOf(values) == CHOOSE v \in {values[i] : i \in DOMAIN values} : \A i \in DOMAIN values : v >= values[i]

MinOf(values) == CHOOSE v \in {values[i] : i \in DOMAIN values} : \A i \in DOMAIN values : v <= values[i]

\* dict.get on the raw snapshot
RawGet(raw, key, default) == IF key \in DOMAIN raw THEN raw[key] ELSE default

\* lines 70-79 with the fingerprint tested before the artifact hash
cluster_key_fingerprint_first(record) ==
    LET raw == record.raw_snapshot
        apk_sha256 == NormValue(RawGet(raw, "apk_sha256", <<>>))
        component_fp == RawGet(raw, "component_fingerprint", None)
    IN  IF component_fp # None THEN <<"fingerprint:", component_fp>>
        ELSE IF apk_sha256 # <<>> THEN <<"sha256:">> \o apk_sha256
        ELSE <<"package:", Lower(record.package_name)>>

\* summarize_campaigns, lines 67-79: the grouping key of one record.  A
\* component fingerprint is a hex digest, which strip() and lower() leave as
\* it is; a record without one gives the empty string
cluster_key(record) ==
    LET raw == record.raw_snapshot
        apk_sha256 == NormValue(RawGet(raw, "apk_sha256", <<>>))
        component_fp == RawGet(raw, "component_fingerprint", None)
    IN  IF apk_sha256 # <<>> THEN <<"sha256:">> \o apk_sha256
        ELSE IF component_fp # None THEN <<"fingerprint:", component_fp>>
        ELSE <<"package:", Lower(record.package_name)>>

\* the length of a 24 hour window, in the unit of the timestamps (seconds)
DAY == 86400

\* a trend that calls a cluster growing as soon as it has more scans than before
trend_label_any_growth(timestamps) ==
    IF timestamps = <<>> THEN [trend |-> "unknown", last_count |-> 0, prev_count |-> 0]
    ELSE LET now_ == MaxOf(timestamps)
             last_count == Cardinality({i \in DOMAIN timestamps : timestamps[i] >= now_ - DAY})
             prev_count == Cardinality({i \in DOMAIN timestamps :
                                           /\ now_ - 2 * DAY <= timestamps[i]
                                           /\ timestamps[i] < now_ - DAY})
         IN  [trend |-> IF prev_count = 0 /\ last_count > 0 THEN "emerging"
                        ELSE IF last_count > prev_count THEN "growing"
                        ELSE IF last_count < prev_count THEN "declining"
                        ELSE "stable",
              last_count |-> last_count, prev_count |-> prev_count]

\* _trend_label, lines 34-56.  ratio > 0.4 with ratio = d / m is 5 * d > 2 * m
trend_label(timestamps) ==
    IF timestamps = <<>> THEN [trend |-> "unknown", last_count |-> 0, prev_count |-> 0]
    ELSE LET now_ == MaxOf(timestamps)
             window_last == now_ - DAY
             window_prev == now_ - 2 * DAY
             last_count == Cardinality({i \in DOMAIN timestamps : timestamps[i] >= window_last})
             prev_count == Cardinality({i \in DOMAIN timestamps :
                                           /\ window_prev <= timestamps[i]
                                           /\ timestamps[i] < window_last})
             d == last_count - prev_count
             m == Max(1, prev_count)
         IN  [trend |-> IF prev_count = 0 /\ last_count > 0 THEN "emerging"
                        ELSE IF 5 * d > 2 * m THEN "growing"
                        ELSE IF 5 * d < 0 - 2 * m THEN "declining"
                        ELSE "stable",
              last_count |-> last_count, prev_count |-> prev_count]

\* _campaign_id, lines 59-61: the digest of the seed, taken to be the seed
campaign_id(seed) == <<"camp-", seed>>

\* campaigns.py _score_to_level, lines 24-31
campaign_score_to_level(score) ==
    IF score >= 7500 THEN "CRITICAL"
    ELSE IF score >= 5500 THEN "HIGH"
    ELSE IF score >= 3000 THEN "MEDIUM"
    ELSE "LOW"

\* lines 83-164: the cluster of one group
Cluster(key, items) ==
    LET n == Len(items)
        devices == sorted_set([i \in DOMAIN items |-> items[i].device_id])
        packages == sorted_set([i \in DOMAIN items |-> items[i].package_name])
        scores == [i \in DOMAIN items |-> items[i].risk_score]
        label_malicious == Cardinality({i \in DOMAIN items : items[i].label = 1})
        ioc_count == SeqSum([i \in DOMAIN items |-> Len(items[i].ioc_matches)])
        attack_ids == SortedSeq(UNION {{items[i].attack_techniques[j] :
                                           j \in DOMAIN items[i].attack_techniques} :
                                       i \in DOMAIN items})
        timestamps == [i \in DOMAIN items |-> items[i].created_at]
        trend == trend_label(timestamps)
        bonus == IF trend.trend = "growing" THEN 5
                 ELSE IF trend.trend = "emerging" THEN 3 ELSE 0
        \* the score in hundredths, times 100 * n
        total == 55 * SeqSum(scores) + 20 * n * SeqMax(scores)
                     + 1000 * n * Min(100, 12 * Len(devices))
                     + 500 * n * Min(100, 8 * n)
                     + 500 * n * Min(100, 15 * Len(attack_ids))
                     + 300 * Min(100 * n, 40 * ioc_count)
                     + 200 * Min(100 * n, 100 * label_malicious)
                     + 10000 * n * bonus
        campaign_score == RoundHalfEven(Min(10000 * 100 * n, total), 100 * n)
        ids == {items[i].id : i \in DOMAIN items}
    IN  [campaign_id |-> campaign_id(<<key, devices, packages>>),
         cluster_key |-> key,
         campaign_score |-> campaign_score,
         campaign_level |-> campaign_score_to_level(campaign_score),
         scan_count |-> n,
         device_count |-> Len(devices),
         package_count |-> Len(packages),
         devices |-> devices,
         packages |-> packages,
         avg_risk |-> RoundHalfEven(SeqSum(scores), n),
         max_risk |-> SeqMax(scores),
         ioc_density |-> RoundHalfEven(1000 * ioc_count, n),
         ioc_matches_total |-> ioc_count,
         attack_techniques |-> attack_ids,
         malicious_label_ratio |-> RoundHalfEven(1000 * label_malicious, n),
         first_seen |-> MinOf(timestamps),
         last_seen |-> MaxOf(timestamps),
         trend |-> trend.trend,
         scans_last_24h |-> trend.last_count,
         scans_prev_24h |-> trend.prev_count,
         scan_ids |-> {id \in ids : id > 0}]

\* clusters.sort(key=(campaign_score, scan_count), reverse=True): a stable
\* sort, equal keys keep their order
ClusterBefore(a, b) ==
    \/ a.campaign_score > b.campaign_score
    \/ a.campaign_score = b.campaign_score /\ a.scan_count > b.scan_count

RECURSIVE SortClusters(_)
SortClusters(clusters) ==
    IF clusters = <<>> THEN <<>>
    ELSE LET first == CHOOSE i \in DOMAIN clusters :
                         /\ \A j \in DOMAIN clusters : ~ClusterBefore(clusters[j], clusters[i])
                         /\ \A j \in 1..(i - 1) : ClusterBefore(clusters[i], clusters[j])
             rest == [k \in 1..(Len(clusters) - 1) |->
                         IF k < first THEN clusters[k] ELSE clusters[k + 1]]
         IN  <<clusters[first]>> \o SortClusters(rest)

\* summarize_campaigns, lines 64-179
summarize_campaigns(scan_records, min_cluster_size) ==
    LET keys == FirstSeen([i \in DOMAIN scan_records |-> cluster_key(scan_records[i])])
        Items(key) == SelectSeq(scan_records, LAMBDA record : cluster_key(record) = key)
        kept == SelectSeq(keys, LAMBDA key : Len(Items(key)) >= Max(1, min_cluster_size))
        clusters == [k \in DOMAIN kept |-> Cluster(kept[k], Items(kept[k]))]
    IN  [total_scans |-> Len(scan_records),
         high_risk_scans |->
             Cardinality({i \in DOMAIN scan_records : scan_records[i].risk_score >= 5500}),
         global_device_count |->
             Cardinality({scan_records[i].device_id : i \in DOMAIN scan_records}),
         global_package_count |->
             Cardinality({scan_records[i].package_name : i \in DOMAIN scan_records}),
         clusters |-> SortClusters(clusters)]

(***************************************************************************)
(* stixlite.py: build_stix_lite_bundle                                     *)
(***************************************************************************)
\* _new_id: uuid4 gives an id no other object of the bundle has; the model
\* takes the position the object is appended at
NewId(stix_type, objects) == <<stix_type, Len(objects) + 1>>

Relationship(objects, created, relationship_type, source_ref, target_ref) ==
    [type |-> "relationship", id |-> NewId("relationship", objects), created |-> created,
     relationship_type |-> relationship_type, source_ref |-> source_ref,
     target_ref |-> target_ref]

\* lines 119-151 without the test on the prefix "sha256:"
RECURSIVE StixIocsAll(_, _, _)
StixIocsAll(ioc_matches, objects, observed) ==
    IF ioc_matches = <<>> THEN objects
    ELSE LET ioc_val == Head(ioc_matches)
             indicator_id == NewId("indicator", objects)
             indicator == [type |-> "indicator", id |-> indicator_id,
                           created_by_ref |-> observed.created_by_ref,
                           created |-> observed.created,
                           name |-> <<"IOC match", observed.x_package_name>>,
                           labels |-> <<"ioc", "android">>,
                           description |-> ioc_val]
             with_indicator == Append(objects, indicator)
         IN  StixIocsAll(Tail(ioc_matches),
                         Append(with_indicator,
                                Relationship(with_indicator, observed.created, "related-to",
                                             indicator_id, observed.id)),
                         observed)

\* lines 119-151: the loop over the IOC matches of one record
RECURSIVE StixIocs(_, _, _)
StixIocs(ioc_matches, objects, observed) ==
    IF ioc_matches = <<>> THEN objects
    ELSE LET ioc_val == Head(ioc_matches)
             indicator_id == NewId("indicator", objects)
             indicator == [type |-> "indicator", id |-> indicator_id,
                           created_by_ref |-> observed.created_by_ref,
                           created |-> observed.created,
                           name |-> <<"IOC match", observed.x_package_name>>,
                           labels |-> <<"ioc", "android">>,
                           description |-> ioc_val]
             with_indicator == Append(objects, indicator)
         IN  IF ioc_val # <<>> /\ ioc_val[1] = "sha256:"
             THEN StixIocs(Tail(ioc_matches), objects, observed)
             ELSE StixIocs(Tail(ioc_matches),
                           Append(with_indicator,
                                  Relationship(with_indicator, observed.created, "related-to",
                                               indicator_id, observed.id)),
                           observed)

\* lines 153-188: the loop over the techniques of one record; acc holds the
\* bundle objects and the attack_pattern_ids dict
RECURSIVE StixTechniques(_, _, _, _)
StixTechniques(attack_techniques, acc, observed, created_now) ==
    IF attack_techniques = <<>> THEN acc
    ELSE LET tech_id == Head(attack_techniques)
             known == tech_id \in DOMAIN acc.attack_pattern_ids
             attack_pattern_id == NewId("attack-pattern", acc.objects)
             patterns == IF known THEN acc.attack_pattern_ids
                         ELSE [t \in (DOMAIN acc.attack_pattern_ids) \cup {tech_id} |->
                                  IF t = tech_id THEN attack_pattern_id
                                  ELSE acc.attack_pattern_ids[t]]
             objects == IF known THEN acc.objects
                        ELSE Append(acc.objects,
                                    [type |-> "attack-pattern", id |-> attack_pattern_id,
                                     created |-> created_now,
                                     x_attack_technique_id |-> tech_id])
         IN  IF tech_id = "" THEN StixTechniques(Tail(attack_techniques), acc, observed, created_now)
             ELSE StixTechniques(
                      Tail(attack_techniques),
                      [objects |-> Append(objects,
                                          Relationship(objects, observed.created, "related-to",
                                                       observed.id, patterns[tech_id])),
                       attack_pattern_ids |-> patterns],
                      observed, created_now)

\* lines 41-188: one pass of the loop over the scan records
StixRecord(record, acc, identity_id, created_now) ==
    LET created_at == record.created_at
        observed_id == NewId("observed-data", acc.objects)
        observed == [type |-> "observed-data", id |-> observed_id,
                     created_by_ref |-> identity_id, created |-> created_at,
                     number_observed |-> 1, x_scan_id |-> record.id,
                     x_device_id |-> record.device_id,
                     x_package_name |-> record.package_name,
                     x_risk_level |-> record.risk_level,
                     x_risk_score |-> record.risk_score,
                     x_features |-> record.features]
        with_observed == Append(acc.objects, observed)
        note == [type |-> "note", id |-> NewId("note", with_observed),
                 created_by_ref |-> identity_id, created |-> created_at,
                 content |-> IF record.reasons # <<>> THEN record.reasons
                             ELSE <<"Sin razones registradas">>,
                 object_refs |-> <<observed_id>>]
        with_note == Append(with_observed, note)
        apk_sha256 == NormValue(RawGet(record.raw_snapshot, "apk_sha256", <<>>))
        indicator_id == NewId("indicator", with_note)
        indicator == [type |-> "indicator", id |-> indicator_id,
                      created_by_ref |-> identity_id, created |-> created_at,
                      name |-> <<"APK SHA-256", record.package_name>>,
                      pattern |-> apk_sha256,
                      labels |-> <<"apk-hash", "android", record.risk_level>>]
        with_hash == IF apk_sha256 # <<>>
                     THEN LET with_indicator == Append(with_note, indicator)
                          IN  Append(with_indicator,
                                     Relationship(with_indicator, created_at, "based-on",
                                                  indicator_id, observed_id))
                     ELSE with_note
        with_iocs == StixIocs(record.ioc_matches, with_hash, observed)
    IN  StixTechniques(record.attack_techniques,
                       [objects |-> with_iocs, attack_pattern_ids |-> acc.attack_pattern_ids],
                       observed, created_now)

RECURSIVE StixRecords(_, _, _, _)
StixRecords(scan_records, acc, identity_id, created_now) ==
    IF scan_records = <<>> THEN acc
    ELSE StixRecords(Tail(scan_records),
                     StixRecord(Head(scan_records), acc, identity_id, created_now),
                     identity_id, created_now)

\* build_stix_lite_bundle, lines 19-196
build_stix_lite_bundle(scan_records, source_name, created_now) ==
    LET identity_id == NewId("identity", <<>>)
        identity == [type |-> "identity", id |-> identity_id, created |-> created_now,
                     name |-> source_name, identity_class |-> "organization"]
        acc == StixRecords(scan_records,
                           [objects |-> <<identity>>, attack_pattern_ids |-> <<>>],
                           identity_id, created_now)
    IN  [type |-> "bundle", id |-> NewId("bundle", acc.objects), objects |-> acc.objects]

(***************************************************************************)
(* Bounds and inputs                                                       *)
(***************************************************************************)
\* scans already in the store when the pipeline is constructed over it
HistoryLen == 8

\* scans a run adds
MaxNewScans == 2

\* the clock runs from 0 to MaxClock
MaxClock == 1

\* the number of distinct scans a run labels
MaxLabeled == 2

\* the number of snapshots a run adds to the model-version log
MaxTrainings == 2

\* the longest list of scan records handed to the campaign and export functions
MaxRecords == 3

\* the most timestamps at one instant handed to the trend function
MaxBurst == 3

\* the longest list of IOC matches handed to the risk engine directly
MaxIocMatches == 5

IocRow(ioc_type, value, severity, confidence, source, active) ==
    [ioc_type |-> ioc_type, value |-> value, severity |-> severity,
     confidence |-> confidence, source |-> source, active |-> active]

\* sync_iocs_from_file, lines 103-131: the seed file
SeedFile ==
    [is_dict |-> TRUE,
     iocs |-> << IocRow("keyword", <<"com.fake.system.updater">>, 9, 90, "local_seed", TRUE),
                 IocRow("keyword", <<"silentinstall">>, 8, 80, "local_seed", TRUE),
                 IocRow("regex", <<"android\\.permission\\.BIND_ACCESSIBILITY_SERVICE">>,
                        8, 85, "local_seed", TRUE) >>]

\* the files a run finds on disk; DEFAULT_IOC_FILE is absent at first
DEFAULT_IOC_FILE == "config/intel_iocs.json"

InitialFiles ==
    [path \in {DEFAULT_IOC_FILE, "feed1.json", "feed2.json", "list.json"} |->
        CASE path = "feed1.json" ->
                [is_dict |-> TRUE,
                 iocs |-> << IocRow("keyword", <<" ", "A", "B", " ">>, 9, 90, "feedA", TRUE),
                             IocRow("regex", <<"(">>, 5, 70, "", TRUE),
                             IocRow("hash_sha256", <<"H1">>, 8, 80, "feedA", TRUE) >>]
          [] path = "feed2.json" ->
                [is_dict |-> TRUE,
                 iocs |-> << IocRow("Keyword", <<"a", "b">>, 3, 50, " ", FALSE),
                             IocRow("keyword", <<" ">>, 7, 70, "feedB", TRUE),
                             IocRow("regex", <<"b">>, 6, 60, "feedB", TRUE) >>]
          [] path = "list.json" -> [is_dict |-> FALSE, iocs |-> <<>>]
          [] OTHER -> None]

Snapshot(dumpsys, pm_path, pm_installer, sha256, size, remote, err) ==
    [dumpsys_package |-> dumpsys, pm_path |-> pm_path, pm_installer |-> pm_installer,
     apk_remote_path |-> remote, apk_sha256 |-> sha256, apk_size_bytes |-> size,
     apk_pull_error |-> err]

\* what the Device Snapshot Collector hands over (_collect_snapshot)
SnapA ==
    Snapshot(<<"A", "b", "(", "\n", "android.permission.READ_LOGS", "admob">>,
             <<"package:", "/data/app/a/base.apk">>,
             <<"package:com.a", " ", "installer=", "com.android.vending">>,
             <<"h1">>, 2048, "/data/app/a/base.apk", "")

SnapB ==
    Snapshot(<<"android.permission.BIND_ACCESSIBILITY_SERVICE", "\n",
               "android.permission.SYSTEM_ALERT_WINDOW", "android.permission.READ_LOGS",
               "android.permission.RECEIVE_BOOT_COMPLETED", "silentinstall", "analytics">>,
             <<>>, <<>>, <<>>, 0, "", "No se encontro ruta APK desde pm path")

SnapC ==
    Snapshot(<<"android.permission.INTERNET">>,
             <<"package:", "/data/app/c/base.apk">>,
             <<"package:com.c", " ", "installer=", "b">>,
             <<"h2">>, 1024, "/data/app/c/base.apk", "")

ScanInputs ==
    { <<"emulator-5554", "com.a", SnapA>>,
      <<"device-2", "com.b", SnapB>>,
      <<"emulator-5554", "com.c", SnapC>> }

\* scan_package, lines 147-215, over a given store state: the result it returns
ScanOf(device_id, package_name, snapshot, table, baseline_table, model, t, scan_id) ==
    LET features == build_features(snapshot, package_name)
        component_summary == extract_component_summary(snapshot)
        result == IntelligentScanResult(
                      device_id, package_name, t, features,
                      match_iocs(snapshot, table),
                      infer_attack_techniques(features, snapshot.dumpsys_package),
                      build_component_fingerprint(package_name, snapshot, component_summary),
                      model, load_baseline(baseline_table))
    IN  [result EXCEPT !.scan_id = scan_id]

\* lines 210-212: what scan_package adds to the snapshot before storing it
RawSnapshot(snapshot, result) ==
    [dumpsys_package |-> snapshot.dumpsys_package, pm_path |-> snapshot.pm_path,
     pm_installer |-> snapshot.pm_installer,
     apk_remote_path |-> snapshot.apk_remote_path, apk_sha256 |-> snapshot.apk_sha256,
     apk_size_bytes |-> snapshot.apk_size_bytes, apk_pull_error |-> snapshot.apk_pull_error,
     component_summary |-> result.component_fingerprint.component_summary,
     component_fingerprint |-> result.component_fingerprint,
     attack_techniques |-> result.attack_techniques]

\* the scans of an earlier session: HistoryLen scans of SnapC, one a second,
\* the last one a second before this session starts; made with an empty
\* catalogue, no baseline and no model
History ==
    [i \in 1..HistoryLen |->
        LET result == ScanOf("emulator-5554", "com.c", SnapC, <<>>, {}, None,
                             i - (HistoryLen + 1), i)
        IN  ScanRow(result, RawSnapshot(SnapC, result))]

\* a snapshot of the model-version log written by an earlier session
StoredModel ==
    [model_name |-> "supervised_risk_v1", model_version |-> 0 - 2,
     model_payload |-> SupervisedRiskModel(0 - 2, "saturated"),
     trained_samples |-> 8, created_at |-> 0 - 2]

\* the snapshot written before it
StoredModelOld ==
    [model_name |-> "supervised_risk_v1", model_version |-> 0 - 3,
     model_payload |-> SupervisedRiskModel(0 - 3, "zero_weights"),
     trained_samples |-> 9, created_at |-> 0 - 3]

\* the labels an analyst gave in the earlier session: one per stored scan, and
\* one, by label_scan, to the id after the last (no scan has it yet)
StoredLabels ==
    {[scan_id |-> i, label |-> i % 2, source |-> "analyst",
      created_at |-> 0 - 1] : i \in 1..(HistoryLen + 1)}

Ret(op, value, raised) == [op |-> op, value |-> value, raised |-> raised]

EmptyMap == [x \in {} |-> None]

MapPut(f, key, value) ==
    [x \in (DOMAIN f) \cup {key} |-> IF x = key THEN value ELSE f[x]]

(***************************************************************************)
(* The state after construction                                            *)
(***************************************************************************)
\* ThreatIntelDB.__init__ and IntelligentScanPipeline.__init__ over a store
\* file that holds the given scan log and model-version log
ConstructLabeled(stored_scans, stored_models, stored_labels) ==
    /\ ioc_signatures = <<>>
    /\ model_baseline = {}
    /\ scan_labels = stored_labels
    /\ scan_sessions = stored_scans
    /\ ml_models = stored_models
    /\ ml_model = load_latest_ml_model(ml_models)
    /\ ioc_files = InitialFiles
    /\ now = 0
    /\ ret = Ret("init", None, "")
    /\ last_ingest = EmptyMap
    /\ last_labeling =
           [id \in {r.scan_id : r \in stored_labels} |->
               LET r == CHOOSE x \in stored_labels : x.scan_id = id
               IN  [label |-> r.label, source |-> r.source, created_at |-> r.created_at,
                    relabeled |-> FALSE]]

Construct(stored_scans, stored_models) == ConstructLabeled(stored_scans, stored_models, {})

\* a pipeline over a new store file, or over the store of an earlier session
Init ==
    /\ \E stored_scans \in {<<>>, History} : \E stored_models \in {<<>>, <<StoredModel>>} :
            Construct(stored_scans, stored_models)
    /\ call = None

\* a pipeline over a new store file
InitNew == Construct(<<>>, <<>>) /\ call = None

\* a pipeline over the store of an earlier session that trained no model
InitStored == Construct(History, <<>>) /\ call = None

\* a pipeline over the store of an earlier session whose scans are labeled
InitLabeled ==
    /\ \E stored_models \in {<<>>, <<StoredModelOld, StoredModel>>} :
            ConstructLabeled(History, stored_models, StoredLabels)
    /\ call = None

(***************************************************************************)
(* The operations of IntelligentScanPipeline                               *)
(***************************************************************************)
\* the history of ingests after the rows of one upsert_iocs call
RECURSIVE IngestHistory(_, _)
IngestHistory(rows, hist) ==
    IF rows = <<>> THEN hist
    ELSE LET r == ParseIocRow(Head(rows))
         IN  IF r.value = <<>> THEN IngestHistory(Tail(rows), hist)
             ELSE IngestHistory(Tail(rows),
                                MapPut(hist, <<r.ioc_type, r.value>>,
                                       [severity |-> Head(rows).severity,
                                        confidence |-> Head(rows).confidence,
                                        source |-> r.source,
                                        active |-> Head(rows).active]))

\* sync_iocs_from_file(ioc_file)
SyncIocs(path) ==
    LET content == IF ioc_files[path] = None THEN SeedFile ELSE ioc_files[path]
        iocs == IF content.is_dict THEN content.iocs ELSE <<>>
        res == upsert_iocs(iocs, ioc_signatures, now)
    IN  /\ ioc_files' = [ioc_files EXCEPT ![path] = content]
        /\ ioc_signatures' = res.table
        /\ last_ingest' = IngestHistory(iocs, last_ingest)
        /\ ret' = [op |-> "sync_iocs_from_file", value |-> res.upserted, raised |-> "",
                   rows |-> iocs]
        /\ UNCHANGED <<model_baseline, scan_labels, scan_sessions, ml_models, ml_model,
                       now, last_labeling, call>>

NewScans ==
    IF Len(scan_sessions) >= HistoryLen THEN Len(scan_sessions) - HistoryLen
    ELSE Len(scan_sessions)

\* scan_package(device_id, package_name), the collector handing over snapshot
ScanPackage(device_id, package_name, snapshot) ==
    LET result == ScanOf(device_id, package_name, snapshot, ioc_signatures,
                         model_baseline, ml_model, now, Len(scan_sessions) + 1)
    IN  /\ NewScans < MaxNewScans
        /\ scan_sessions' = store_scan(scan_sessions, result, RawSnapshot(snapshot, result))
        /\ ret' = Ret("scan_package", result, "")
        /\ UNCHANGED <<ioc_signatures, model_baseline, scan_labels, ml_models, ml_model,
                       ioc_files, now, last_ingest, last_labeling, call>>

\* rebuild_baseline(max_rows)
RebuildBaseline(max_rows) ==
    IF Min(max_rows, Len(scan_sessions)) = 0
    THEN /\ ret' = [op |-> "rebuild_baseline", value |-> 0, raised |-> "",
                    args |-> [max_rows |-> max_rows]]
         /\ UNCHANGED <<ioc_signatures, model_baseline, scan_labels, scan_sessions,
                        ml_models, ml_model, ioc_files, now, last_ingest, last_labeling,
                        call>>
    ELSE \E ids \in RecentSelections(scan_sessions, max_rows) :
            LET keys == {NUMERIC_FIELDS[i] : i \in DOMAIN NUMERIC_FIELDS}
            IN  /\ model_baseline' =
                       {r \in model_baseline : r.feature_name \notin keys}
                           \cup {BaselineRow(key, ids, scan_sessions, now) : key \in keys}
                /\ ret' = [op |-> "rebuild_baseline", value |-> Cardinality(ids),
                           raised |-> "", args |-> [max_rows |-> max_rows]]
                /\ UNCHANGED <<ioc_signatures, scan_labels, scan_sessions, ml_models,
                               ml_model, ioc_files, now, last_ingest, last_labeling, call>>

\* ThreatIntelDB.set_scan_label as a step: the validation, then the upsert
SetScanLabel(op, scan_id, label, source) ==
    IF label \notin {0, 1}
    THEN /\ ret' = [op |-> op, value |-> NoneNum, raised |-> "ValueError", label |-> label]
         /\ UNCHANGED <<scan_labels, last_labeling>>
    ELSE /\ Cardinality({id \in (DOMAIN last_labeling) \cup {scan_id} :
                             id = scan_id \/ last_labeling[id].created_at >= 0}) <= MaxLabeled
         /\ scan_labels' = set_scan_label(scan_labels, scan_id, label, source, now)
         /\ last_labeling' = MapPut(last_labeling, scan_id,
                                    [label |-> label, source |-> source, created_at |-> now,
                                     relabeled |-> scan_id \in DOMAIN last_labeling])
         /\ ret' = [op |-> op, value |-> IF op = "label_scan" THEN NoneNum ELSE scan_id,
                    raised |-> "", label |-> label]

\* label_scan(scan_id, label, source)
LabelScan(scan_id, label, source) ==
    /\ SetScanLabel("label_scan", scan_id, label, source)
    /\ UNCHANGED <<ioc_signatures, model_baseline, scan_sessions, ml_models, ml_model,
                   ioc_files, now, last_ingest, call>>

\* label_latest_scan_for_package(package_name, label, source)
LabelLatest(package_name, label, source) ==
    LET scan_id == get_latest_scan_id_for_package(scan_sessions, package_name)
    IN  /\ IF scan_id = NoneNum
           THEN /\ ret' = [op |-> "label_latest_scan_for_package", value |-> NoneNum,
                           raised |-> "", label |-> label]
                /\ UNCHANGED <<scan_labels, last_labeling>>
           ELSE SetScanLabel("label_latest_scan_for_package", scan_id, label, source)
        /\ UNCHANGED <<ioc_signatures, model_baseline, scan_sessions, ml_models, ml_model,
                       ioc_files, now, last_ingest, call>>

\* the snapshots this session added to the model-version log
NewModels == Cardinality({i \in DOMAIN ml_models : ml_models[i].created_at >= 0})

\* the parameter sets gradient descent may end at
FittedParams == {"zero_weights", "saturated"}

\* train_supervised_model(min_samples, max_rows)
TrainSupervisedModel(min_samples, max_rows) ==
    LET labeled_rows == get_labeled_feature_rows(scan_sessions, scan_labels, max_rows)
        args == [min_samples |-> min_samples, max_rows |-> max_rows]
    IN  IF Len(labeled_rows) < min_samples \/ fit_raises(labeled_rows)
        THEN /\ ret' = [op |-> "train_supervised_model", value |-> None,
                        raised |-> "ValueError", args |-> args]
             /\ UNCHANGED <<ioc_signatures, model_baseline, scan_labels, scan_sessions,
                            ml_models, ml_model, ioc_files, now, last_ingest,
                            last_labeling, call>>
        ELSE \E params \in FittedParams :
                LET model == SupervisedRiskModel(now, params)
                IN  /\ NewModels < MaxTrainings
                    /\ ml_models' = store_ml_model(ml_models, model, Len(labeled_rows), now)
                    /\ ml_model' = model
                    /\ ret' = [op |-> "train_supervised_model",
                               value |-> [model_name |-> "supervised_risk_v1",
                                          model_version |-> model.version,
                                          trained_samples |-> Len(labeled_rows)],
                               raised |-> "", args |-> args]
                    /\ UNCHANGED <<ioc_signatures, model_baseline, scan_labels,
                                   scan_sessions, ioc_files, now, last_ingest,
                                   last_labeling, call>>

\* a second passes
\* analyze_campaigns(limit, min_cluster_size), pipeline.py lines 265-267
AnalyzeCampaigns(limit, min_cluster_size) ==
    /\ ret' = [op |-> "analyze_campaigns", raised |-> "",
               value |-> summarize_campaigns(
                             get_scan_records(scan_sessions, scan_labels, limit),
                             min_cluster_size)]
    /\ UNCHANGED <<ioc_signatures, model_baseline, scan_labels, scan_sessions, ml_models,
                   ml_model, ioc_files, now, last_ingest, last_labeling, call>>

\* export_stix_lite(limit, scan_ids), pipeline.py lines 247-263; the bundle
\* goes to the caller and to output_path, a file outside the store
ExportStixLite(limit, scan_ids) ==
    LET records == IF scan_ids # {}
                   THEN get_scan_records_by_ids(scan_sessions, scan_labels, scan_ids)
                   ELSE get_scan_records(scan_sessions, scan_labels, limit)
    IN  /\ ret' = [op |-> "export_stix_lite", raised |-> "",
                   value |-> build_stix_lite_bundle(records, "android-ad-scanner", now)]
        /\ UNCHANGED <<ioc_signatures, model_baseline, scan_labels, scan_sessions,
                       ml_models, ml_model, ioc_files, now, last_ingest, last_labeling,
                       call>>

Tick ==
    /\ now < MaxClock
    /\ now' = now + 1
    /\ UNCHANGED <<ioc_signatures, model_baseline, scan_labels, scan_sessions, ml_models,
                   ml_model, ioc_files, ret, last_ingest, last_labeling, call>>

\* the scan ids a caller may pass to label_scan: the last one and an unknown one
LabelIds == {Len(scan_sessions), Len(scan_sessions) + 1} \ {0}

Packages == {"com.a", "com.b", "com.c"}

DoSync == \E path \in DOMAIN ioc_files : SyncIocs(path)

DoScan == \E input \in ScanInputs : ScanPackage(input[1], input[2], input[3])

DoRebuild == \E max_rows \in {0, 7, 500} : RebuildBaseline(max_rows)

DoLabelScan ==
    \E scan_id \in LabelIds : \E label \in {0, 1, 2} :
        LabelScan(scan_id, label, "cli")

DoLabelLatest ==
    \E package_name \in Packages : \E label \in {0, 1, 2} :
        LabelLatest(package_name, label, "gui")

DoTrain ==
    \E args \in {<<5, 5000>>, <<5, 7>>, <<20, 5000>>} :
        TrainSupervisedModel(args[1], args[2])

Next == DoSync \/ DoScan \/ DoRebuild \/ DoLabelScan \/ DoLabelLatest \/ DoTrain \/ Tick

Spec == Init /\ [][Next]_vars

\* the IOC catalogue and the scans that match against it
NextIoc == DoSync \/ DoScan

SpecIoc == InitNew /\ [][NextIoc]_vars

\* the baseline and the scans that are measured against it
NextBaseline == DoScan \/ DoRebuild

SpecBaseline == Init /\ [][NextBaseline]_vars

\* training on the labeled scans of an earlier session, and scans with the
\* model it gives
DoScanAgain ==
    \E input \in {x \in ScanInputs : x[2] = "com.c"} : ScanPackage(input[1], input[2], input[3])

NextTrain == DoScanAgain \/ DoTrain \/ Tick

SpecTrain == InitLabeled /\ [][NextTrain]_vars

\* every operation of the pipeline over the two logs of an earlier session:
\* one new scan, one training, and the other operations at any time
InitLog == ConstructLabeled(History, <<StoredModelOld, StoredModel>>, StoredLabels) /\ call = None

LogScan == NewScans = 0 /\ DoScanAgain

LogSync == SyncIocs("feed1.json")

LogLabel == LabelLatest("com.c", 1, "gui")

LogRebuild == RebuildBaseline(500)

LogTrain == NewModels = 0 /\ TrainSupervisedModel(5, 5000)

DoAnalyze == AnalyzeCampaigns(2000, 2)

DoExport == \E scan_ids \in {{}, {1, Len(scan_sessions)}} : ExportStixLite(100, scan_ids)

NextLog == LogScan \/ LogLabel \/ LogSync \/ LogRebuild \/ LogTrain \/ DoAnalyze \/ DoExport

SpecLog == InitLog /\ [][NextLog]_vars

\* the labels given to the scans of an earlier session, as time passes
NextLabel == DoLabelScan \/ DoLabelLatest \/ Tick

SpecLabel == InitStored /\ [][NextLabel]_vars

(***************************************************************************)
(* Direct calls of the scoring functions: the risk engine, the anomaly     *)
(* detector and the fusion of scan_package on drawn arguments              *)
(***************************************************************************)
Bits == {0, 1}

\* the vector of tests/test_intelligence_layers.py, _feature_vector
TestVector ==
    FeatureVector("com.example.test", "com.android.vending", 3, 12, 5, 3, 2, 1, 1, 1, 1, 1, 0, 0)

\* the baseline of test_anomaly_detector, with a given sample size
TestBaseline(sample_size) ==
    BaselineStats(
        [name \in {NUMERIC_FIELDS[i] : i \in DOMAIN NUMERIC_FIELDS} |->
            CASE name \in {"permissions_total", "dangerous_permissions_count"} -> 400
              [] name \in {"ad_sdk_hits", "tracker_hits"} -> 100
              [] OTHER -> 0],
        [name \in {NUMERIC_FIELDS[i] : i \in DOMAIN NUMERIC_FIELDS} |->
            IF name \in {"permissions_total", "dangerous_permissions_count"} THEN 100 ELSE 50],
        sample_size)

\* a baseline of identical scans: every std is 0
FlatBaseline(sample_size) ==
    BaselineStats(
        [name \in {NUMERIC_FIELDS[i] : i \in DOMAIN NUMERIC_FIELDS} |->
            CASE name \in {"permissions_total", "dangerous_permissions_count"} -> 400
              [] name \in {"ad_sdk_hits", "tracker_hits"} -> 100
              [] OTHER -> 0],
        [name \in {NUMERIC_FIELDS[i] : i \in DOMAIN NUMERIC_FIELDS} |-> 0],
        sample_size)

IocList(n) == [i \in 1..n |-> <<"silentinstall">>]

Call(features, ioc_matches, model, baseline) ==
    [features |-> features, ioc_matches |-> ioc_matches, model |-> model,
     baseline |-> baseline]

\* every combination of the rule engine's conditions, no model, no baseline
RuleCalls ==
    {Call(FeatureVector("com.x", installer, susp, dang, ad, tr, kw,
                        boot, acc, ovl, inst, ws, 0, 0),
          IocList(n), None, None) :
        installer \in {"com.android.vending", "UNKNOWN.market", " "},
        susp \in {0, 1, 3}, dang \in {0, 4, 8}, ad \in {0, 1, 4}, tr \in {0, 1, 3},
        kw \in {1, 2}, boot \in Bits, acc \in Bits, ovl \in Bits, inst \in Bits,
        ws \in Bits, n \in {0, 1, MaxIocMatches}}

ScoreModels ==
    {None} \cup {SupervisedRiskModel(3, params) :
                    params \in {"zero_weights", "saturated", "p285600", "p123456"}}

ScoreBaselines ==
    {None} \cup {TestBaseline(n) : n \in {7, 8, 25}} \cup {FlatBaseline(n) : n \in {7, 8, 25}}

\* vectors around the baselines, with and without a model and a baseline
FusionCalls ==
    {Call(FeatureVector("com.x", "com.android.vending", susp, dang, ad, tr, kw,
                        b, b, b, b, b, 0, 0),
          IocList(n), model, baseline) :
        susp \in {0, 1, 3}, dang \in {4, 5, 7, 12}, ad \in {1, 5}, tr \in {1, 3},
        kw \in {0, 2}, b \in Bits, n \in {0, 1},
        model \in ScoreModels, baseline \in ScoreBaselines}

ScoreCalls == RuleCalls \cup FusionCalls \cup {Call(TestVector, IocList(1), None, TestBaseline(25))}

InitScore == Construct(<<>>, <<>>) /\ call \in ScoreCalls

\* evaluate, ZScoreAnomalyDetector.evaluate and the fusion on the drawn call
Score ==
    /\ ret.op = "init"
    /\ ret' = [op |-> "score", raised |-> "",
               risk |-> risk_evaluate(call.features, call.ioc_matches),
               anomaly |-> anomaly_evaluate(call.features, call.baseline),
               value |-> IntelligentScanResult(
                             "emulator-5554", call.features.package_name, now,
                             call.features, call.ioc_matches,
                             infer_attack_techniques(call.features, <<>>),
                             None, call.model, call.baseline)]
    /\ UNCHANGED <<ioc_signatures, model_baseline, scan_labels, scan_sessions, ml_models,
                   ml_model, ioc_files, now, last_ingest, last_labeling, call>>

NextScore == Score

SpecScore == InitScore /\ [][NextScore]_vars

(***************************************************************************)
(* The specification of the analysis functions: summarize_campaigns,       *)
(* _trend_label and build_stix_lite_bundle over given scan records         *)
(***************************************************************************)
\* a scan record as get_scan_records returns it
ScanRecord(id, created_at, device_id, package_name, risk_score, label, ioc_matches, attack_techniques, raw_snapshot) ==
    [id |-> id, created_at |-> created_at, device_id |-> device_id,
     package_name |-> package_name, risk_score |-> risk_score,
     risk_level |-> score_to_level(risk_score), anomaly_score |-> NoneNum,
     anomaly_zmax |-> NoneNum, label |-> label, reasons |-> <<>>,
     ioc_matches |-> ioc_matches, features |-> TestVector,
     raw_snapshot |-> raw_snapshot, attack_techniques |-> attack_techniques]

FingerprintA == build_component_fingerprint("com.a", SnapA, extract_component_summary(SnapA))

FingerprintB == build_component_fingerprint("com.b", SnapB, extract_component_summary(SnapB))

\* the records the lists are drawn from: with an artifact hash (in two
\* spellings), with a fingerprint only, with neither
RecordProfiles(id) ==
    { ScanRecord(id, 0, "A", "com.a", 8400, 1, << <<"silentinstall">> >>, <<"T1453">>,
                 [apk_sha256 |-> <<"H1", " ">>, component_fingerprint |-> FingerprintA]),
      ScanRecord(id, DAY, "B", "com.b", 9100, 1,
                 << <<"sha256:", "h1">>, <<"silentinstall">> >>, <<"T1453", "T1624.001">>,
                 [apk_sha256 |-> <<"h1">>, component_fingerprint |-> FingerprintB]),
      ScanRecord(id, DAY, "A", "com.a", 2000, NoneNum, <<>>, <<>>,
                 [apk_sha256 |-> <<>>, component_fingerprint |-> FingerprintA]),
      ScanRecord(id, 2 * DAY + 1, "B", "com.c", 5500, 0, <<>>, <<"T1636">>,
                 [apk_sha256 |-> <<" ">>, component_fingerprint |-> FingerprintA]),
      ScanRecord(id, 3 * DAY, "emulator-5554", "Com.A", 1000, NoneNum, <<>>, <<>>,
                 [apk_sha256 |-> <<>>]),
      ScanRecord(id, 0, "device-2", "com.a", 3000, 1, << <<"b">> >>, <<"T1453">>,
                 [dumpsys_package |-> <<>>]) }

RECURSIVE RecordLists(_)
RecordLists(n) ==
    IF n = 0 THEN {<<>>}
    ELSE LET shorter == RecordLists(n - 1)
         IN  shorter \cup {Append(records, record) :
                              records \in {l \in shorter : Len(l) = n - 1},
                              record \in RecordProfiles(n)}

\* last copies of the newest instant, and so many of the instants on and
\* next to the two window edges
Timestamps(newest, on_last, in_prev, on_prev, older) ==
    [i \in 1..newest |-> 3 * DAY] \o [i \in 1..on_last |-> 2 * DAY]
        \o [i \in 1..in_prev |-> 2 * DAY - 1] \o [i \in 1..on_prev |-> DAY]
        \o [i \in 1..older |-> DAY - 1]

AnalysisCalls ==
    {[kind |-> "records", records |-> records, min_cluster_size |-> min_cluster_size] :
        records \in RecordLists(MaxRecords), min_cluster_size \in {0, 2}}
    \cup
    {[kind |-> "timestamps",
      timestamps |-> Timestamps(newest, on_last, in_prev, on_prev, older)] :
        newest \in 1..(MaxBurst + 1), on_last \in 0..MaxBurst,
        in_prev \in 0..(MaxBurst + 1), on_prev \in 0..MaxBurst, older \in 0..1}

InitAnalysis == Construct(<<>>, <<>>) /\ call \in AnalysisCalls

\* summarize_campaigns(scan_records, min_cluster_size)
Summarize ==
    /\ call.kind = "records"
    /\ ret' = [op |-> "summarize_campaigns", raised |-> "",
               value |-> summarize_campaigns(call.records, call.min_cluster_size)]
    /\ UNCHANGED <<ioc_signatures, model_baseline, scan_labels, scan_sessions, ml_models,
                   ml_model, ioc_files, now, last_ingest, last_labeling, call>>

\* _trend_label(timestamps)
Trend ==
    /\ call.kind = "timestamps"
    /\ ret' = [op |-> "trend_label", raised |-> "", value |-> trend_label(call.timestamps)]
    /\ UNCHANGED <<ioc_signatures, model_baseline, scan_labels, scan_sessions, ml_models,
                   ml_model, ioc_files, now, last_ingest, last_labeling, call>>

\* build_stix_lite_bundle(scan_records)
BuildStix ==
    /\ call.kind = "records"
    /\ ret' = [op |-> "build_stix_lite_bundle", raised |-> "",
               value |-> build_stix_lite_bundle(call.records, "android-ad-scanner", now)]
    /\ UNCHANGED <<ioc_signatures, model_baseline, scan_labels, scan_sessions, ml_models,
                   ml_model, ioc_files, now, last_ingest, last_labeling, call>>

NextAnalysis == Summarize \/ Trend \/ BuildStix

SpecAnalysis == InitAnalysis /\ [][NextAnalysis]_vars

(***************************************************************************)
(* The component summary and the component fingerprint as functions of the *)
(* inspection text: pipeline.py _extract_component_summary and             *)
(* _build_component_fingerprint applied to texts made of whole lines       *)
(***************************************************************************)
MaxLines == 3

\* lines of "dumpsys package" output
ComponentLines ==
    {<<"android.permission.READ_LOGS">>,
     <<"android.permission.INTERNET", " ", "android.permission.RECEIVE_BOOT_COMPLETED">>,
     <<"Receiver", " ", "exported=true">>,
     <<"service", " ", "Exported=True">>,
     <<"activity", " ", "exported\\=\\true">>}

\* the ways a component is printed as exported
ExportedTrueTexts == {"exported=true", "Exported=True", "exported = true"}

RECURSIVE JoinLines(_)
JoinLines(lines) ==
    IF lines = <<>> THEN <<>>
    ELSE IF Len(lines) = 1 THEN lines[1]
    ELSE lines[1] \o <<"\n">> \o JoinLines(Tail(lines))

SwapAt(seq, j, k) == [seq EXCEPT ![j] = seq[k], ![k] = seq[j]]

DumpsysSnapshot(c) ==
    Snapshot(JoinLines(c.lines), <<>>, <<>>, c.artifact.apk_sha256, c.artifact.apk_size_bytes,
             c.artifact.apk_remote_path, c.artifact.apk_pull_error)

FingerprintCalls ==
    [kind : {"dumpsys"}, package_name : {"com.a"},
     lines : UNION {[1..n -> ComponentLines] : n \in 1..MaxLines},
     artifact : {[apk_sha256 |-> <<"h1">>, apk_size_bytes |-> 2048,
                  apk_remote_path |-> "/data/app/a/base.apk", apk_pull_error |-> ""],
                 [apk_sha256 |-> <<>>, apk_size_bytes |-> 0, apk_remote_path |-> "",
                  apk_pull_error |-> "No se encontro ruta APK desde pm path"]}]

FingerprintOps ==
    {"build_component_fingerprint", "reorder_lines", "reorder_permissions", "more_exported"}

InitFingerprint == Construct(<<>>, <<>>) /\ call \in FingerprintCalls

\* scan_package lines 210-211 on the snapshot of c: the summary, then the fingerprint
FingerprintOf(op, c) ==
    LET snapshot == DumpsysSnapshot(c)
        component_summary == extract_component_summary(snapshot)
    IN  /\ call' = c
        /\ ret' = [op |-> op, raised |-> "", before |-> call.lines,
                   summary |-> component_summary,
                   value |-> build_component_fingerprint(c.package_name, snapshot,
                                                         component_summary)]
        /\ UNCHANGED <<ioc_signatures, model_baseline, scan_labels, scan_sessions, ml_models,
                       ml_model, ioc_files, now, last_ingest, last_labeling>>

BuildFingerprint ==
    /\ call.kind = "dumpsys"
    /\ ret.op = "init"
    /\ FingerprintOf("build_component_fingerprint", call)

\* the same package inspected again, its lines printed in another order
ReorderLines ==
    /\ call.kind = "dumpsys"
    /\ ret.op \in FingerprintOps
    /\ \E i \in 1..(Len(call.lines) - 1) :
          /\ call.lines[i] # call.lines[i + 1]
          /\ FingerprintOf("reorder_lines", [call EXCEPT !.lines = SwapAt(@, i, i + 1)])

\* the same package inspected again, the permissions of one line in another order
ReorderPermissions ==
    /\ call.kind = "dumpsys"
    /\ ret.op \in FingerprintOps
    /\ \E l \in DOMAIN call.lines : \E j, k \in DOMAIN call.lines[l] :
          /\ j < k
          /\ call.lines[l][j] \in PermissionAtoms
          /\ call.lines[l][k] \in PermissionAtoms
          /\ FingerprintOf("reorder_permissions",
                           [call EXCEPT !.lines[l] = SwapAt(@, j, k)])

\* the same package inspected again with one more exported component
MoreExported ==
    /\ call.kind = "dumpsys"
    /\ ret.op \in FingerprintOps
    /\ Len(call.lines) < MaxLines
    /\ \E text \in ExportedTrueTexts :
          FingerprintOf("more_exported", [call EXCEPT !.lines = Append(@, <<text>>)])

NextFingerprint == BuildFingerprint \/ ReorderLines \/ ReorderPermissions \/ MoreExported

SpecFingerprint == InitFingerprint /\ [][NextFingerprint]_vars

(***************************************************************************)
(* Scans whose snapshot is collected from the device: pipeline.py          *)
(* _collect_snapshot and _extract_apk_artifact in front of scan_package    *)
(***************************************************************************)
\* the paths of the "package:" lines of the pm path output
RemotePaths(pm_path_output) ==
    LET lines == SplitLines(pm_path_output, <<>>)
        Path(line) == LET rest == Strip(Tail(Strip(line)))
                      IN  IF rest = <<>> THEN "" ELSE rest[1]
    IN  [i \in 1..Len(SelectSeq(lines, LAMBDA line : Strip(line) # <<>>
                                                    /\ Head(Strip(line)) = "package:")) |->
            Path(SelectSeq(lines, LAMBDA line : Strip(line) # <<>>
                                               /\ Head(Strip(line)) = "package:")[i])]

\* what the except branch would return if it kept the hash and the size of
\* the file as far as it was pulled
extract_apk_artifact_partial(pm_path_output, pull) ==
    LET remote_paths == RemotePaths(pm_path_output)
    IN  IF remote_paths = <<>>
        THEN [apk_remote_path |-> "", apk_sha256 |-> <<>>, apk_size_bytes |-> 0,
              apk_pull_error |-> "No se encontro ruta APK desde pm path"]
        ELSE [apk_remote_path |-> remote_paths[1], apk_sha256 |-> pull.sha256,
              apk_size_bytes |-> pull.size_bytes, apk_pull_error |-> pull.error]

\* _extract_apk_artifact; pull is the outcome of "adb pull", hash_file_sha256 and stat:
\* raised or not, the text of the exception, the digest and size of the local file
extract_apk_artifact(pm_path_output, pull) ==
    LET remote_paths == RemotePaths(pm_path_output)
    IN  IF remote_paths = <<>>
        THEN [apk_remote_path |-> "", apk_sha256 |-> <<>>, apk_size_bytes |-> 0,
              apk_pull_error |-> "No se encontro ruta APK desde pm path"]
        ELSE IF ~pull.raised
        THEN [apk_remote_path |-> remote_paths[1], apk_sha256 |-> pull.sha256,
              apk_size_bytes |-> pull.size_bytes, apk_pull_error |-> ""]
        ELSE [apk_remote_path |-> remote_paths[1], apk_sha256 |-> <<>>,
              apk_size_bytes |-> 0, apk_pull_error |-> pull.error]

\* _collect_snapshot; adb holds the outputs of the three adb commands and the pull
collect_snapshot(adb) ==
    LET apk_artifact == extract_apk_artifact(adb.pm_path, adb.pull)
    IN  Snapshot(adb.dumpsys, adb.pm_path, adb.pm_installer, apk_artifact.apk_sha256,
                 apk_artifact.apk_size_bytes, apk_artifact.apk_remote_path,
                 apk_artifact.apk_pull_error)

PullOutcomes ==
    {[raised |-> FALSE, error |-> "", sha256 |-> <<"h1">>, size_bytes |-> 2048],
     [raised |-> TRUE, sha256 |-> <<"h0">>, size_bytes |-> 512,
      error |-> "Command '['adb', 'pull']' returned non-zero exit status 1."],
     [raised |-> TRUE, sha256 |-> <<>>, size_bytes |-> 0,
      error |-> "Command '['adb', 'pull']' timed out after 180 seconds"]}

AdbOutputs ==
    [dumpsys : {SnapA.dumpsys_package},
     pm_path : {<<>>, <<"package:", "/data/app/a/base.apk">>,
                <<" ", "package:", "/data/app/a/base.apk", "\n",
                  "package:", "/data/app/a/split_config.apk">>,
                <<"Error:", " ", "unknown"," ", "package">>},
     pm_installer : {SnapA.pm_installer},
     pull : PullOutcomes]

\* scan_package(device_id, package_name) on a device that answers with adb
ScanDevice(device_id, package_name, adb) ==
    LET snapshot == collect_snapshot(adb)
        result == ScanOf(device_id, package_name, snapshot, ioc_signatures,
                         model_baseline, ml_model, now, Len(scan_sessions) + 1)
    IN  /\ NewScans < MaxNewScans
        /\ scan_sessions' = store_scan(scan_sessions, result, RawSnapshot(snapshot, result))
        /\ ret' = [op |-> "scan_package", value |-> result, raised |-> "", adb |-> adb]
        /\ UNCHANGED <<ioc_signatures, model_baseline, scan_labels, ml_models, ml_model,
                       ioc_files, now, last_ingest, last_labeling, call>>

DoScanDevice == \E adb \in AdbOutputs : ScanDevice("emulator-5554", "com.a", adb)

NextDevice == DoScanDevice \/ Tick

SpecDevice == InitNew /\ [][NextDevice]_vars

(***************************************************************************)
(* Batch reads over a store file whose JSON columns were damaged:          *)
(* intel_db.py _row_to_scan_record with its _safe_json, under              *)
(* get_scan_records and get_scan_records_by_ids                            *)
(***************************************************************************)
MaxDamaged == 2

JsonColumns == {"reasons", "ioc_matches", "features", "raw_snapshot"}

\* the text of a damaged column: cut short (json.loads raises), or replaced by the
\* JSON text null (json.loads returns None)
Damages == {"truncated", "null"}

EmptyDict == [x \in {} |-> 0]

\* the column of row id as stored: the value store_scan wrote and what became of its text
Blob(damaged, id, column, value) ==
    [value |-> value,
     damage |-> IF \E d \in damaged : d[1] = id /\ d[2] = column
                THEN (CHOOSE d \in damaged : d[1] = id /\ d[2] = column)[3]
                ELSE "intact"]

\* _safe_json(payload, default)
safe_json(payload, default) ==
    IF payload.damage = "truncated" THEN default
    ELSE IF payload.damage = "null" THEN None
    ELSE payload.value

\* _row_to_scan_record on a row whose columns may be damaged: raw_snapshot.get raises
\* AttributeError when the snapshot text decodes to something that is not a dict
row_to_scan_record_damaged(sessions, labels, id, damaged) ==
    LET record == row_to_scan_record(sessions, labels, id)
        Column(column, default) == safe_json(Blob(damaged, id, column, record[column]), default)
        snapshot_blob == Blob(damaged, id, "raw_snapshot", record.raw_snapshot)
    IN  IF snapshot_blob.damage = "null"
        THEN [raised |-> "AttributeError", record |-> None]
        ELSE [raised |-> "",
              record |-> [record EXCEPT
                            !.reasons = Column("reasons", <<>>),
                            !.ioc_matches = Column("ioc_matches", <<>>),
                            !.features = Column("features", EmptyDict),
                            !.raw_snapshot = Column("raw_snapshot", EmptyDict),
                            !.attack_techniques =
                                IF snapshot_blob.damage = "truncated" THEN <<>> ELSE @]]

\* return [self._row_to_scan_record(row) for row in rows]
DecodeRows(sessions, labels, order, damaged) ==
    LET decoded == [k \in DOMAIN order |->
                       row_to_scan_record_damaged(sessions, labels, order[k], damaged)]
    IN  IF \E k \in DOMAIN decoded : decoded[k].raised # ""
        THEN [value |-> None, raised |-> "AttributeError"]
        ELSE [value |-> [k \in DOMAIN decoded |-> decoded[k].record], raised |-> ""]

InitRead ==
    /\ Construct(SubSeq(History, 1, 2), <<>>)
    /\ call = [kind |-> "blobs", damaged |-> {}]

\* the store file is damaged from outside: one JSON column of one row
DamageBlob ==
    /\ call.kind = "blobs"
    /\ Cardinality(call.damaged) < MaxDamaged
    /\ \E id \in DOMAIN scan_sessions : \E column \in JsonColumns : \E damage \in Damages :
          /\ ~\E d \in call.damaged : d[1] = id /\ d[2] = column
          /\ call' = [call EXCEPT !.damaged = @ \cup {<<id, column, damage>>}]
    /\ UNCHANGED <<ioc_signatures, model_baseline, scan_labels, scan_sessions, ml_models,
                   ml_model, ioc_files, now, ret, last_ingest, last_labeling>>

\* get_scan_records(limit)
ReadRecords ==
    /\ call.kind = "blobs"
    /\ \E limit \in {1, 100} :
          LET order == LabeledOrder(DOMAIN scan_sessions, scan_sessions)
              selected == SubSeq(order, 1, Min(limit, Len(order)))
              read == DecodeRows(scan_sessions, scan_labels, selected, call.damaged)
          IN  ret' = [op |-> "get_scan_records", selected |-> selected,
                      damaged |-> call.damaged,
                      value |-> read.value, raised |-> read.raised]
    /\ UNCHANGED <<ioc_signatures, model_baseline, scan_labels, scan_sessions, ml_models,
                   ml_model, ioc_files, now, last_ingest, last_labeling, call>>

\* get_scan_records_by_ids(scan_ids)
ReadRecordsByIds ==
    /\ call.kind = "blobs"
    /\ \E scan_ids \in {{1}, {1, 2}, {2, 3}} :
          LET selected == LabeledOrder(scan_ids \cap DOMAIN scan_sessions, scan_sessions)
              read == DecodeRows(scan_sessions, scan_labels, selected, call.damaged)
          IN  ret' = [op |-> "get_scan_records_by_ids", selected |-> selected,
                      damaged |-> call.damaged,
                      value |-> read.value, raised |-> read.raised]
    /\ UNCHANGED <<ioc_signatures, model_baseline, scan_labels, scan_sessions, ml_models,
                   ml_model, ioc_files, now, last_ingest, last_labeling, call>>

NextRead == DamageBlob \/ ReadRecords \/ ReadRecordsByIds

SpecRead == InitRead /\ [][NextRead]_vars

(***************************************************************************)
(* Concurrent callers.  The GUI starts every pipeline operation on a       *)
(* thread of its own (adb_automation_tool.py _run_background), all on one  *)
(* pipeline object and one store file.  A thread is [op, pc, args, local,  *)
(* result]; the threads and the holder of SQLite's write lock are kept in  *)
(* call.  Every store method opens a connection of its own: its SELECT     *)
(* reads what is committed, its writes stay pending from the first         *)
(* statement, which takes the write lock, to the commit at the end of the  *)
(* with block.                                                             *)
(***************************************************************************)
Threads == {"t1", "t2"}

Tables ==
    [ioc_signatures |-> ioc_signatures, model_baseline |-> model_baseline,
     scan_labels |-> scan_labels, scan_sessions |-> scan_sessions, ml_models |-> ml_models]

\* the effect of one INSERT / upsert statement on the tables
apply(tables, stmt) ==
    CASE stmt.table = "scan_sessions" ->
            [tables EXCEPT !.scan_sessions = store_scan(@, stmt.result, stmt.raw_snapshot)]
      [] stmt.table = "scan_labels" ->
            [tables EXCEPT !.scan_labels = set_scan_label(@, stmt.scan_id, stmt.label,
                                                          stmt.source, stmt.created_at)]
      [] stmt.table = "ioc_signatures" ->
            [tables EXCEPT !.ioc_signatures = UpsertOne(@, stmt.row, stmt.created_at)]
      [] stmt.table = "model_baseline" ->
            [tables EXCEPT !.model_baseline =
                {r \in @ : r.feature_name # stmt.row.feature_name} \cup {stmt.row}]
      [] stmt.table = "ml_models" ->
            [tables EXCEPT !.ml_models = store_ml_model(@, stmt.model, stmt.trained_samples,
                                                        stmt.created_at)]

RECURSIVE ApplyAll(_, _)
ApplyAll(tables, stmts) ==
    IF Len(stmts) = 0 THEN tables ELSE ApplyAll(apply(tables, Head(stmts)), Tail(stmts))

\* a connection in autocommit mode: every statement is visible at once
execute_autocommit(tables, pending, stmt) ==
    [tables |-> apply(tables, stmt), pending |-> pending]

\* conn.execute inside "with self._connect() as conn": the statement joins the
\* open transaction and nothing is visible to other connections
execute(tables, pending, stmt) == [tables |-> tables, pending |-> Append(pending, stmt)]

\* a store without a write lock
may_write_unlocked(writer, t) == TRUE

\* SQLite admits one writing transaction at a time
may_write(writer, t) == writer \in {"none", t}

NoLocal ==
    [ioc_table |-> <<>>, baseline_table |-> {}, predicted |-> None, version |-> NoneNum,
     result |-> None, raw_snapshot |-> None, scan_id |-> NoneNum, latest_at_write |-> NoneNum,
     rows |-> {}, n |-> 0, model |-> None, trained_samples |-> 0,
     todo |-> <<>>, pending |-> <<>>, lastrowid |-> NoneNum]

Program(op, pc, args) == [op |-> op, pc |-> pc, args |-> args, local |-> NoLocal, result |-> None]

Programs ==
    {Program("scan_package", "match_iocs",
             [device_id |-> "emulator-5554", package_name |-> "com.c", snapshot |-> SnapC]),
     Program("label_latest_scan_for_package", "lookup",
             [package_name |-> "com.c", label |-> 0, source |-> "gui"]),
     Program("label_latest_scan_for_package", "lookup",
             [package_name |-> "com.c", label |-> 1, source |-> "gui"]),
     Program("rebuild_baseline", "read_history", [max_rows |-> 1000]),
     Program("train_supervised_model", "read_labeled", [min_samples |-> 8, max_rows |-> 5000]),
     Program("upsert_iocs", "upsert_iocs", [rows |-> SubSeq(SeedFile.iocs, 1, 2)])}

\* the baseline an earlier rebuild left: all stored scans but the last
PreviousBaseline ==
    {BaselineRow(NUMERIC_FIELDS[i], 1..(HistoryLen - 1), History, 0 - 1) :
        i \in DOMAIN NUMERIC_FIELDS}

InitThreads ==
    /\ ioc_signatures = <<>>
    /\ model_baseline \in {{}, PreviousBaseline}
    /\ scan_labels = StoredLabels
    /\ scan_sessions = History
    /\ ml_models = <<StoredModelOld, StoredModel>>
    /\ ml_model = load_latest_ml_model(ml_models)
    /\ ioc_files = InitialFiles
    /\ now = 0
    /\ ret = Ret("init", None, "")
    /\ last_ingest = EmptyMap
    /\ last_labeling = EmptyMap
    /\ \E programs \in [Threads -> Programs] :
          call = [kind |-> "threads", writer |-> "none", threads |-> programs,
                  previous_baseline |-> model_baseline]

Th(t) == call.threads[t]

At(t, op, pc) == call.kind = "threads" /\ Th(t).op = op /\ Th(t).pc = pc

\* a step of thread t that touches nothing but its own locals
LocalStep(t, thread) ==
    /\ call' = [call EXCEPT !.threads[t] = thread]
    /\ UNCHANGED <<ioc_signatures, model_baseline, scan_labels, scan_sessions, ml_models,
                   ml_model, ioc_files, now, ret, last_ingest, last_labeling>>

\* scan_package line 155: _match_iocs reads the active IOCs
ScanMatchIocs(t) ==
    /\ At(t, "scan_package", "match_iocs")
    /\ LocalStep(t, [Th(t) EXCEPT !.pc = "load_baseline", !.local.ioc_table = ioc_signatures])

\* line 162: baseline = self.db.load_baseline()
ScanLoadBaseline(t) ==
    /\ At(t, "scan_package", "load_baseline")
    /\ LocalStep(t, [Th(t) EXCEPT !.pc = "check_model", !.local.baseline_table = model_baseline])

\* lines 188-212: the result and the snapshot handed to store_scan
ScanBuild(thread, model) ==
    LET a == thread.args
        result == ScanOf(a.device_id, a.package_name, a.snapshot, thread.local.ioc_table,
                         thread.local.baseline_table, model, now, NoneNum)
    IN  [thread EXCEPT !.pc = "execute",
                       !.local.result = result,
                       !.local.todo = <<[table |-> "scan_sessions", result |-> result,
                                         raw_snapshot |-> RawSnapshot(a.snapshot, result)]>>]

\* line 167: if self.ml_model is not None
ScanCheckModel(t) ==
    /\ At(t, "scan_package", "check_model")
    /\ LocalStep(t, IF ml_model = None THEN ScanBuild(Th(t), None)
                    ELSE [Th(t) EXCEPT !.pc = "predict"])

\* line 168: ml_prob = self.ml_model.predict_proba(features)
ScanPredict(t) ==
    /\ At(t, "scan_package", "predict")
    /\ LocalStep(t, [Th(t) EXCEPT !.pc = "read_version", !.local.predicted = ml_model])

\* line 170: model_version = self.ml_model.version
ScanReadVersion(t) ==
    /\ At(t, "scan_package", "read_version")
    /\ LET thread == [Th(t) EXCEPT !.local.version = ml_model.version]
       IN  LocalStep(t, ScanBuild(thread, SupervisedRiskModel(thread.local.version,
                                                              thread.local.predicted.params)))

\* label_latest_scan_for_package lines 221-223 and set_scan_label up to its with block
LatestLookup(t) ==
    /\ At(t, "label_latest_scan_for_package", "lookup")
    /\ LET a == Th(t).args
           scan_id == get_latest_scan_id_for_package(scan_sessions, a.package_name)
       IN  LocalStep(t, IF scan_id = NoneNum
                        THEN [Th(t) EXCEPT !.pc = "done",
                                           !.result = [value |-> NoneNum, raised |-> ""]]
                        ELSE [Th(t) EXCEPT !.pc = "execute", !.local.scan_id = scan_id,
                                           !.local.todo =
                                               <<[table |-> "scan_labels", scan_id |-> scan_id,
                                                  label |-> a.label, source |-> a.source,
                                                  created_at |-> now]>>])

\* rebuild_baseline_from_history up to its second with block
RebuildRead(t) ==
    /\ At(t, "rebuild_baseline", "read_history")
    /\ IF Min(Th(t).args.max_rows, Len(scan_sessions)) = 0
       THEN LocalStep(t, [Th(t) EXCEPT !.pc = "done", !.result = [value |-> 0, raised |-> ""]])
       ELSE \E ids \in RecentSelections(scan_sessions, Th(t).args.max_rows) :
               LET rows == [i \in DOMAIN NUMERIC_FIELDS |->
                               BaselineRow(NUMERIC_FIELDS[i], ids, scan_sessions, now)]
               IN  LocalStep(t, [Th(t) EXCEPT
                                    !.pc = "execute",
                                    !.local.n = Cardinality(ids),
                                    !.local.rows = {rows[i] : i \in DOMAIN rows},
                                    !.local.todo = [i \in DOMAIN rows |->
                                                       [table |-> "model_baseline",
                                                        row |-> rows[i]]]])

\* train_supervised_model lines 295-323: the labeled rows, the model, the fit
TrainFit(t) ==
    /\ At(t, "train_supervised_model", "read_labeled")
    /\ LET a == Th(t).args
           labeled_rows == get_labeled_feature_rows(scan_sessions, scan_labels, a.max_rows)
       IN  IF Len(labeled_rows) < a.min_samples \/ fit_raises(labeled_rows)
           THEN LocalStep(t, [Th(t) EXCEPT !.pc = "done",
                                           !.result = [value |-> None, raised |-> "ValueError"]])
           ELSE \E params \in FittedParams :
                   LocalStep(t, [Th(t) EXCEPT
                                    !.pc = "store_ml_model",
                                    !.local.model = SupervisedRiskModel(now, params),
                                    !.local.trained_samples = Len(labeled_rows)])

\* store_ml_model up to its with block
TrainStore(t) ==
    /\ At(t, "train_supervised_model", "store_ml_model")
    /\ LocalStep(t, [Th(t) EXCEPT
                        !.pc = "execute",
                        !.local.todo = <<[table |-> "ml_models", model |-> Th(t).local.model,
                                          trained_samples |-> Th(t).local.trained_samples,
                                          created_at |-> now]>>])

\* line 332: self.ml_model = model
TrainAssign(t) ==
    /\ At(t, "train_supervised_model", "assign")
    /\ ml_model' = Th(t).local.model
    /\ call' = [call EXCEPT !.threads[t].pc = "done",
                            !.threads[t].result =
                                [value |-> [model_name |-> "supervised_risk_v1",
                                            model_version |-> Th(t).local.model.version,
                                            trained_samples |-> Th(t).local.trained_samples],
                                 raised |-> ""]]
    /\ UNCHANGED <<ioc_signatures, model_baseline, scan_labels, scan_sessions, ml_models,
                   ioc_files, now, ret, last_ingest, last_labeling>>

\* upsert_iocs up to its with block: the rows that will be written
UpsertBegin(t) ==
    /\ At(t, "upsert_iocs", "upsert_iocs")
    /\ LET parsed == [i \in DOMAIN Th(t).args.rows |-> ParseIocRow(Th(t).args.rows[i])]
           kept == SelectSeq(parsed, LAMBDA r : r.value # <<>>)
       IN  LocalStep(t, [Th(t) EXCEPT
                            !.pc = "execute",
                            !.local.n = Len(kept),
                            !.local.todo = [i \in DOMAIN kept |->
                                               [table |-> "ioc_signatures", row |-> kept[i],
                                                created_at |-> now]]])

\* one conn.execute of a with block; the first one takes the write lock
Execute(t) ==
    /\ call.kind = "threads"
    /\ Th(t).pc = "execute"
    /\ may_write(call.writer, t)
    /\ LET stmt == Head(Th(t).local.todo)
           e == execute(Tables, Th(t).local.pending, stmt)
       IN  /\ ioc_signatures' = e.tables.ioc_signatures
           /\ model_baseline' = e.tables.model_baseline
           /\ scan_labels' = e.tables.scan_labels
           /\ scan_sessions' = e.tables.scan_sessions
           /\ ml_models' = e.tables.ml_models
           /\ call' = [call EXCEPT
                          !.writer = t,
                          !.threads[t].pc = IF Len(Th(t).local.todo) = 1 THEN "commit" ELSE @,
                          !.threads[t].local.todo = Tail(@),
                          !.threads[t].local.pending = e.pending,
                          !.threads[t].local.lastrowid =
                              IF stmt.table = "scan_sessions" THEN Len(scan_sessions) + 1
                              ELSE IF stmt.table = "ml_models" THEN Len(ml_models) + 1
                              ELSE @]
    /\ UNCHANGED <<ml_model, ioc_files, now, ret, last_ingest, last_labeling>>

\* what the operation returns once its transaction is committed
ResultOf(thread, tables) ==
    CASE thread.op = "scan_package" ->
            [value |-> [thread.local.result EXCEPT !.scan_id = thread.local.lastrowid],
             raised |-> ""]
      [] thread.op = "label_latest_scan_for_package" ->
            [value |-> thread.local.scan_id, raised |-> "",
             latest_at_write |->
                 get_latest_scan_id_for_package(tables.scan_sessions, thread.args.package_name)]
      [] thread.op = "rebuild_baseline" -> [value |-> thread.local.n, raised |-> ""]
      [] thread.op = "upsert_iocs" -> [value |-> thread.local.n, raised |-> ""]
      [] OTHER -> None

\* the end of the with block: the connection commits
Commit(t) ==
    /\ call.kind = "threads"
    /\ Th(t).pc = "commit"
    /\ LET tables == ApplyAll(Tables, Th(t).local.pending)
       IN  /\ ioc_signatures' = tables.ioc_signatures
           /\ model_baseline' = tables.model_baseline
           /\ scan_labels' = tables.scan_labels
           /\ scan_sessions' = tables.scan_sessions
           /\ ml_models' = tables.ml_models
           /\ call' = [call EXCEPT
                          !.writer = "none",
                          !.threads[t].local.pending = <<>>,
                          !.threads[t].pc = IF Th(t).op = "train_supervised_model"
                                            THEN "assign" ELSE "done",
                          !.threads[t].result = ResultOf(Th(t), tables)]
    /\ UNCHANGED <<ml_model, ioc_files, now, ret, last_ingest, last_labeling>>

NextThreads ==
    \/ \E t \in Threads :
          \/ ScanMatchIocs(t) \/ ScanLoadBaseline(t) \/ ScanCheckModel(t)
          \/ ScanPredict(t) \/ ScanReadVersion(t)
          \/ LatestLookup(t) \/ RebuildRead(t)
          \/ TrainFit(t) \/ TrainStore(t) \/ TrainAssign(t)
          \/ UpsertBegin(t) \/ Execute(t) \/ Commit(t)
    \/ Tick

SpecThreads == InitThreads /\ [][NextThreads]_vars


\* thread t has returned from op
Done(t, op) == call.kind = "threads" /\ Th(t).op = op /\ Th(t).pc = "done"

(***************************************************************************)
(* Properties of the scoring functions (SpecScore)                         *)
(***************************************************************************)

\* C1: every scan result has risk_score in [0, 100], and its risk_level is
\* decided by the final score alone: LOW below 30, MEDIUM from 30 and below 55,
\* HIGH from 55 and below 75, CRITICAL from 75.
C1_ScoreRangeAndLevel ==
    ret.op = "score" =>
        LET r == ret.value
        IN  /\ r.risk_score >= 0 /\ r.risk_score <= 10000
            /\ r.risk_level \in {"LOW", "MEDIUM", "HIGH", "CRITICAL"}
            /\ (r.risk_level = "LOW") = (r.risk_score < 3000)
            /\ (r.risk_level = "MEDIUM") = (r.risk_score >= 3000 /\ r.risk_score < 5500)
            /\ (r.risk_level = "HIGH") = (r.risk_score >= 5500 /\ r.risk_score < 7500)
            /\ (r.risk_level = "CRITICAL") = (r.risk_score >= 7500)

\* a fused score with a model and an anomaly bonus that lifts MEDIUM to HIGH
C1_Witness ==
    /\ ret.op = "score"
    /\ ret.value.ml_risk_score # NoneNum
    /\ ret.value.anomaly_score >= 7000
    /\ ret.value.risk_score > ret.risk.score
    /\ ret.value.risk_level = "HIGH"
    /\ ret.risk.level = "MEDIUM"

\* the weights of the rule engine as the specification lists them
C2_Hits(f, n) ==
    << IF f.suspicious_permissions_count >= 3 THEN 28
       ELSE IF f.suspicious_permissions_count > 0 THEN 14 ELSE 0,
       IF f.overlay_permission_detected # 0 THEN 10 ELSE 0,
       IF f.accessibility_binding_detected # 0 THEN 14 ELSE 0,
       IF f.install_packages_permission_detected # 0 THEN 12 ELSE 0,
       IF f.write_settings_detected # 0 THEN 10 ELSE 0,
       IF f.boot_receiver_detected # 0 THEN 8 ELSE 0,
       IF f.ad_sdk_hits >= 4 THEN 15 ELSE IF f.ad_sdk_hits > 0 THEN 6 ELSE 0,
       IF f.tracker_hits >= 3 THEN 10 ELSE IF f.tracker_hits > 0 THEN 5 ELSE 0,
       IF f.suspicious_keyword_hits >= 2 THEN 6 ELSE 0,
       IF f.dangerous_permissions_count >= 8 THEN 12
       ELSE IF f.dangerous_permissions_count >= 4 THEN 6 ELSE 0,
       IF 8 * n > 32 THEN 32 ELSE 8 * n,
       IF InstallerHasUnknown(f.installer) \/ InstallerIsBlank(f.installer) THEN 6 ELSE 0 >>

\* C2: the rule engine's score is min(100, sum of the weights of the triggered
\* conditions), it appends exactly one reason per triggered condition, and the
\* test vector scores at least 75, level CRITICAL.
C2_RuleEngineWeights ==
    ret.op = "score" =>
        LET hits == C2_Hits(call.features, Len(call.ioc_matches))
            total == SeqSum(hits)
        IN  /\ ret.risk.score = 100 * (IF total > 100 THEN 100 ELSE total)
            /\ Len(ret.risk.reasons) = Cardinality({i \in DOMAIN hits : hits[i] > 0})
            /\ \A i, j \in DOMAIN ret.risk.reasons :
                   i # j => ret.risk.reasons[i].msg # ret.risk.reasons[j].msg
            /\ call.features = TestVector =>
                   ret.risk.score >= 7500 /\ ret.risk.level = "CRITICAL"

\* the test vector evaluated: its weights exceed 100 and the score is capped
C2_Witness ==
    /\ ret.op = "score"
    /\ call.features = TestVector
    /\ SeqSum(C2_Hits(call.features, Len(call.ioc_matches))) > 100
    /\ ret.risk.score = 10000
    /\ ret.risk.level = "CRITICAL"

\* the anomaly reason of a result, citing the anomaly score and zmax
C3_AnomalyReason(r) == Reason("Anomalia estadistica alta", r.anomaly_score, r.anomaly_zmax)

C3_HasAnomalyReason(r) == \E i \in DOMAIN r.reasons : r.reasons[i] = C3_AnomalyReason(r)

\* 0.65 * rule_score + 0.35 * (100 * p), in millionths of a score point
C3_ExactBlend == 6500 * ret.risk.score + 35 * predict_proba(call.model, call.features)

\* C3 as stated: with a model the fused score is exactly
\* min(100, 0.65 * rule_score + 0.35 * (100 * p)), without one it is the rule
\* score, and the anomaly bonus of 12 (capped at 100, with its reason) is added
\* iff the anomaly score is at least 70.
C3_Original ==
    ret.op = "score" =>
        LET r == ret.value
            fused == IF call.model # None
                     THEN Min(100000000, C3_ExactBlend)
                     ELSE 10000 * ret.risk.score
            bonus == r.anomaly_score >= 7000
        IN  /\ 10000 * r.risk_score =
                   (IF bonus THEN Min(100000000, fused + 12000000) ELSE fused)
            /\ C3_HasAnomalyReason(r) = bonus

\* C3 (amended): ml_score is 100 * p rounded to 2 decimals; with a model the
\* fused score is min(100, 0.65 * rule_score + 0.35 * ml_score) rounded to 2
\* decimals, without one it is the rule score; the anomaly bonus of 12 (capped
\* at 100, with a reason citing the anomaly score and zmax) is added iff the
\* anomaly score is at least 70.
C3_FusionRounded ==
    ret.op = "score" =>
        LET r == ret.value
            p == predict_proba(call.model, call.features)
            bonus == r.anomaly_score >= 7000
            blended == Min(1000000, 65 * ret.risk.score + 35 * r.ml_risk_score)
            \* the hundredths nearest to blended / 100
            near == {s \in {blended \div 100, blended \div 100 + 1} :
                        2 * Abs(100 * s - blended) <= 100}
            fused == IF call.model # None THEN near ELSE {ret.risk.score}
        IN  /\ call.model # None =>
                   /\ r.ml_risk_score \in {p \div 100, p \div 100 + 1}
                   /\ 2 * Abs(100 * r.ml_risk_score - p) <= 100
                   /\ r.ml_model_version = call.model.version
            /\ call.model = None => r.ml_risk_score = NoneNum
            /\ \E s \in fused :
                   r.risk_score = (IF bonus THEN Min(10000, s + 1200) ELSE s)
            /\ C3_HasAnomalyReason(r) = bonus
            /\ Cardinality({i \in DOMAIN r.reasons :
                               r.reasons[i].msg = "Anomalia estadistica alta"})
                   = (IF bonus THEN 1 ELSE 0)

\* a model whose probability is not a whole number of hundredths of a point,
\* blended and then lifted by the anomaly bonus
C3_Witness ==
    /\ ret.op = "score"
    /\ call.model # None
    /\ predict_proba(call.model, call.features) = 123456
    /\ ret.value.ml_risk_score = 1235
    /\ ret.value.anomaly_score >= 7000
    /\ C3_HasAnomalyReason(ret.value)
    /\ ret.value.risk_score < 10000
    /\ 10000 * ret.value.risk_score # C3_ExactBlend + 12000000

\* the z value of one field as the specification gives it, in hundredths
C5_Z(value, mean, std) ==
    IF std = 0 THEN (IF 100 * value = mean THEN 0 ELSE 300)
    ELSE (100 * Abs(100 * value - mean)) \div std

C5_ZOf(field) ==
    C5_Z(call.features[field], call.baseline.means[field], call.baseline.stds[field])

C5_Fields == {NUMERIC_FIELDS[i] : i \in DOMAIN NUMERIC_FIELDS}

\* C5: with a usable baseline the detector returns
\* score = min(100, 18 * zmax + 4 * L2(z)) over the z values of the numeric
\* fields (std = 0: z is 0 at the mean, else the sentinel 3.0); a feature at
\* least 3 std from its mean therefore gives a score above 50, and the score
\* is always in [0, 100].
C5_AnomalyScore ==
    (ret.op = "score" /\ call.baseline # None /\ call.baseline.sample_size >= 8) =>
        LET zs == [i \in DOMAIN NUMERIC_FIELDS |-> C5_ZOf(NUMERIC_FIELDS[i])]
            zmax == SeqMax(zs)
            l2 == ISqrt(SeqSum([i \in DOMAIN zs |-> zs[i] * zs[i]]))
            total == 18 * zmax + 4 * l2
            deviates(field) ==
                LET d == Abs(100 * call.features[field] - call.baseline.means[field])
                    std == call.baseline.stds[field]
                IN  IF std = 0 THEN d > 0 ELSE d >= 3 * std
        IN  /\ ret.anomaly # None
            /\ ret.anomaly.zmax = zmax
            /\ ret.anomaly.score = (IF total > 10000 THEN 10000 ELSE total)
            /\ ret.anomaly.score >= 0 /\ ret.anomaly.score <= 10000
            /\ (\E field \in C5_Fields : deviates(field)) => ret.anomaly.score > 5000
            /\ ret.value.anomaly_score = ret.anomaly.score
            /\ ret.value.anomaly_zmax = ret.anomaly.zmax

\* a feature exactly 3 std above its mean, scored above 50 and below the cap
C5_Witness ==
    /\ ret.op = "score"
    /\ call.baseline = TestBaseline(25)
    /\ call.features.dangerous_permissions_count = 7
    /\ ret.anomaly # None
    /\ ret.anomaly.zmax = 300
    /\ ret.anomaly.score > 5000 /\ ret.anomaly.score < 10000

(***************************************************************************)
(* Properties of the baseline (SpecBaseline)                               *)
(***************************************************************************)

\* the stored baseline is absent or its sample size is below 8
C4_NoUsableBaseline ==
    \/ model_baseline = {}
    \/ \E row \in model_baseline : row.sample_size < 8

\* C4: when no baseline is stored, or the stored baseline has sample_size
\* below 8, scan_package completes, the result has no anomaly score and no
\* zmax, no anomaly reason, and its score carries no anomaly bonus.
C4_NoBaselineNoSignal ==
    (ret.op = "scan_package" /\ C4_NoUsableBaseline) =>
        LET r == ret.value
            risk == risk_evaluate(r.feature_vector, r.ioc_matches)
        IN  /\ ret.raised = ""
            /\ r.anomaly_score = NoneNum
            /\ r.anomaly_zmax = NoneNum
            /\ \A i \in DOMAIN r.reasons : r.reasons[i].msg # "Anomalia estadistica alta"
            /\ r.risk_score = Blend(risk, ml_model, r.feature_vector).risk_score
            /\ scan_sessions[r.scan_id].anomaly_score = NoneNum

\* a scan against a stored baseline of 7 samples, of a package far from it
C4_Witness ==
    /\ ret.op = "scan_package"
    /\ model_baseline # {}
    /\ \A row \in model_baseline : row.sample_size = 7
    /\ ret.value.package_name = "com.b"
    /\ ret.value.anomaly_score = NoneNum
    /\ ret.value.risk_score > 0

(***************************************************************************)
(* Properties of the IOC catalogue (SpecIoc)                               *)
(***************************************************************************)

\* C6: the catalogue holds at most one entry per (lowercased, trimmed type,
\* lowercased, trimmed value); the entry's severity, confidence, source and
\* active flag are those of the most recent ingestion of that identity.
C6_CatalogueUpsert ==
    /\ \A i, j \in DOMAIN ioc_signatures :
           (ioc_signatures[i].ioc_type = ioc_signatures[j].ioc_type
               /\ ioc_signatures[i].value = ioc_signatures[j].value) => i = j
    /\ {<<ioc_signatures[i].ioc_type, ioc_signatures[i].value>> : i \in DOMAIN ioc_signatures}
           = DOMAIN last_ingest
    /\ \A i \in DOMAIN ioc_signatures :
           LET row == ioc_signatures[i]
               last == last_ingest[<<row.ioc_type, row.value>>]
           IN  /\ row.ioc_type = NormType(row.ioc_type)
               /\ row.value = NormValue(row.value)
               /\ row.severity = last.severity
               /\ row.confidence = last.confidence
               /\ row.source = last.source
               /\ (row.active = 1) = last.active
               /\ row.active \in {0, 1}

\* the keyword ingested active from feed1.json and again, inactive with other
\* fields, from feed2.json
C6_Witness ==
    /\ Len(ioc_signatures) >= 4
    /\ ioc_signatures[1].ioc_type = "keyword"
    /\ ioc_signatures[1].value = <<"a", "b">>
    /\ ioc_signatures[1].severity = 3
    /\ ioc_signatures[1].source = "local"
    /\ ioc_signatures[1].active = 0
    /\ ioc_signatures[2].value = <<"(">>

\* C7 as stated: sync_iocs_from_file returns the number of rows in the file's
\* "iocs" list.
C7_Original ==
    ret.op = "sync_iocs_from_file" => ret.value = Len(ret.rows)

\* the rows of a list whose value is not empty after trimming
C7_Valued(rows) == {i \in DOMAIN rows : \E k \in DOMAIN rows[i].value : ~IsBlank(rows[i].value[k])}

\* C7 (amended): sync_iocs_from_file upserts every row of the "iocs" list
\* whose trimmed value is not empty, skips the others, and returns the number
\* of rows upserted.
C7_SyncCountsValuedRows ==
    ret.op = "sync_iocs_from_file" =>
        /\ ret.value = Cardinality(C7_Valued(ret.rows))
        /\ \A i \in C7_Valued(ret.rows) :
               \E k \in DOMAIN ioc_signatures :
                   /\ ioc_signatures[k].ioc_type = NormType(ret.rows[i].ioc_type)
                   /\ ioc_signatures[k].value = NormValue(ret.rows[i].value)
        /\ \A k \in DOMAIN ioc_signatures : ioc_signatures[k].value # <<>>

\* feed2.json synchronized: three rows, one of them with a blank value
C7_Witness ==
    /\ ret.op = "sync_iocs_from_file"
    /\ Len(ret.rows) = 3
    /\ ret.value = 2
    /\ \E k \in DOMAIN ioc_signatures : ioc_signatures[k].value = <<"b">>

\* the snapshot of the scan just returned, as stored with it
C8_Snapshot == scan_sessions[ret.value.scan_id].raw_snapshot

\* an active catalogue entry matches the scanned package
C8_EntryMatches(entry, snapshot) ==
    /\ entry.active = 1
    /\ CASE entry.ioc_type \in {"hash_sha256", "sha256"} ->
                /\ snapshot.apk_sha256 # <<>>
                /\ entry.value = LowerText(Strip(snapshot.apk_sha256))
         [] entry.ioc_type = "regex" ->
                ~RegexMalformed(entry.value) /\ RegexSearch(entry.value, Corpus(snapshot))
         [] OTHER -> Contains(Corpus(snapshot), entry.value)

\* how a match is reported: a hash with the prefix "sha256:", others as they are
C8_Rendering(entry) ==
    IF entry.ioc_type \in {"hash_sha256", "sha256"} THEN <<"sha256:">> \o entry.value
    ELSE entry.value

\* C8: the ioc_matches of a scan are exactly the active catalogue entries that
\* match: a keyword whose value is a substring of the lowercased corpus, a
\* hash equal to the APK's SHA-256 (reported with the prefix "sha256:"), a
\* well-formed regex that finds a match; a deactivated entry never appears.
C8_MatchesAreActiveMatchingEntries ==
    ret.op = "scan_package" =>
        LET matches == ret.value.ioc_matches
            hits == {k \in DOMAIN ioc_signatures :
                        C8_EntryMatches(ioc_signatures[k], C8_Snapshot)}
        IN  /\ Len(matches) = Cardinality(hits)
            /\ \A k \in hits :
                   Cardinality({i \in DOMAIN matches : matches[i] = C8_Rendering(ioc_signatures[k])})
                       = Cardinality({j \in hits : C8_Rendering(ioc_signatures[j])
                                                      = C8_Rendering(ioc_signatures[k])})
            /\ \A i \in DOMAIN matches :
                   \E k \in hits : matches[i] = C8_Rendering(ioc_signatures[k])

\* a scan whose corpus holds a deactivated keyword and whose APK hash is in the
\* catalogue: the hash is reported, the keyword is not
C8_Witness ==
    /\ ret.op = "scan_package"
    /\ \E k \in DOMAIN ioc_signatures :
           /\ ioc_signatures[k].ioc_type = "keyword"
           /\ ioc_signatures[k].active = 0
           /\ Contains(Corpus(C8_Snapshot), ioc_signatures[k].value)
           /\ \A i \in DOMAIN ret.value.ioc_matches :
                  ret.value.ioc_matches[i] # ioc_signatures[k].value
    /\ \E i \in DOMAIN ret.value.ioc_matches :
           ret.value.ioc_matches[i] = <<"sha256:", "h1">>
    /\ \E i \in DOMAIN ret.value.ioc_matches :
           ret.value.ioc_matches[i] = <<"b">>

\* C9 as stated, for ingestion: a malformed regex IOC is skipped when it is
\* ingested, so the catalogue never holds one.
C9_Original ==
    \A k \in DOMAIN ioc_signatures :
        ioc_signatures[k].ioc_type = "regex" => ~RegexMalformed(ioc_signatures[k].value)

\* the rows of a list that are malformed regex IOCs
C9_MalformedRows(rows) ==
    {i \in DOMAIN rows : NormType(rows[i].ioc_type) = "regex"
                            /\ RegexMalformed(NormValue(rows[i].value))}

\* C9 (amended): ingestion does not validate a regex: a malformed regex IOC is
\* stored and counted like any other row and the remaining rows are processed;
\* matching skips it silently: a scan with an active malformed regex in the
\* catalogue completes, never reports it, and reports the other active IOCs
\* that match.
C9_MalformedRegexSkippedWhenMatching ==
    /\ (ret.op = "sync_iocs_from_file" /\ C9_MalformedRows(ret.rows) # {}) =>
           /\ ret.raised = ""
           /\ ret.value = Cardinality(C7_Valued(ret.rows))
           /\ \A i \in C7_Valued(ret.rows) :
                  \E k \in DOMAIN ioc_signatures :
                      /\ ioc_signatures[k].ioc_type = NormType(ret.rows[i].ioc_type)
                      /\ ioc_signatures[k].value = NormValue(ret.rows[i].value)
                      /\ i \in C9_MalformedRows(ret.rows) =>
                             ioc_signatures[k].active = (IF ret.rows[i].active THEN 1 ELSE 0)
    /\ (ret.op = "scan_package"
            /\ \E k \in DOMAIN ioc_signatures :
                   /\ ioc_signatures[k].ioc_type = "regex"
                   /\ ioc_signatures[k].active = 1
                   /\ RegexMalformed(ioc_signatures[k].value)) =>
           /\ ret.raised = ""
           /\ \A i \in DOMAIN ret.value.ioc_matches :
                  ~RegexMalformed(ret.value.ioc_matches[i])
           /\ \A k \in DOMAIN ioc_signatures :
                  (~RegexMalformed(ioc_signatures[k].value)
                      /\ C8_EntryMatches(ioc_signatures[k], C8_Snapshot)) =>
                      \E i \in DOMAIN ret.value.ioc_matches :
                          ret.value.ioc_matches[i] = C8_Rendering(ioc_signatures[k])

\* a scan with the malformed regex of feed1.json active in the catalogue, of a
\* package whose text holds the pattern's characters: the other IOCs are reported
C9_Witness ==
    /\ ret.op = "scan_package"
    /\ \E k \in DOMAIN ioc_signatures :
           /\ ioc_signatures[k].ioc_type = "regex"
           /\ ioc_signatures[k].active = 1
           /\ ioc_signatures[k].value = <<"(">>
           /\ Contains(Corpus(C8_Snapshot), ioc_signatures[k].value)
    /\ Len(ret.value.ioc_matches) >= 2

(***************************************************************************)
(* Properties of the labels (SpecLabel)                                    *)
(***************************************************************************)

\* C10: scan_labels holds at most one label per scan id, every stored label
\* is 0 or 1, and the stored label, source and time are those of the most
\* recent labeling of the scan.
C10_OneLabelPerScan ==
    /\ \A r1, r2 \in scan_labels : r1.scan_id = r2.scan_id => r1 = r2
    /\ {r.scan_id : r \in scan_labels} = DOMAIN last_labeling
    /\ \A r \in scan_labels :
           /\ r.label \in {0, 1}
           /\ r.label = last_labeling[r.scan_id].label
           /\ r.source = last_labeling[r.scan_id].source
           /\ r.created_at = last_labeling[r.scan_id].created_at

\* a scan labeled 1 from the command line and labeled again, later, 0 from the GUI
C10_Witness ==
    /\ ret.op = "label_latest_scan_for_package"
    /\ ret.raised = ""
    /\ \E r \in scan_labels :
           /\ r.scan_id = ret.value
           /\ last_labeling[r.scan_id].relabeled
           /\ r.label = 0
           /\ r.source = "gui"
           /\ r.created_at = 1
    /\ Cardinality(scan_labels) = 2

C11_LabelOps == {"label_scan", "label_latest_scan_for_package"}

\* C11: label_scan and label_latest_scan_for_package called with a label
\* outside {0, 1} fail with a validation error.
C11_InvalidLabelRaises ==
    (ret.op \in C11_LabelOps /\ ret.label \notin {0, 1}) => ret.raised = "ValueError"

\* C11, the frame: a labeling call with a label outside {0, 1} leaves the
\* label set and every other record set unchanged.
C11_InvalidLabelChangesNothing ==
    [][(ret'.op \in C11_LabelOps /\ ret'.label \notin {0, 1} /\ now' = now) =>
           UNCHANGED <<ioc_signatures, model_baseline, scan_labels, scan_sessions,
                       ml_models, ml_model, ioc_files, last_labeling>>]_vars

(***************************************************************************)
(* Properties of training and of the model-version log (SpecTrain)         *)
(***************************************************************************)

\* the labeled rows a training call with the given max_rows reads: the stored
\* scans that have a label, at most max_rows of them
C12_LabeledRows(max_rows) ==
    LET labeled == Cardinality({r \in scan_labels : r.scan_id \in DOMAIN scan_sessions})
    IN  IF max_rows < labeled THEN max_rows ELSE labeled

\* C12: train_supervised_model fails with a validation error whenever the
\* number of labeled rows is below min_samples, and whenever it is below 8
\* whatever min_samples is; a failing call mutates nothing: the model-version
\* log, the active model and every other record set are as before.
C12_TrainingValidation ==
    [][(ret'.op = "train_supervised_model" /\ now' = now) =>
           LET n == C12_LabeledRows(ret'.args.max_rows)
           IN  /\ (n < ret'.args.min_samples \/ n < 8) => ret'.raised = "ValueError"
               /\ ret'.raised # "" =>
                      UNCHANGED <<ioc_signatures, model_baseline, scan_labels,
                                  scan_sessions, ml_models, ml_model, ioc_files>>]_vars

\* a training call that passes min_samples = 5 with 7 rows read and fails in fit
C12_Witness ==
    /\ ret.op = "train_supervised_model"
    /\ ret.raised = "ValueError"
    /\ ret.args.min_samples = 5
    /\ C12_LabeledRows(ret.args.max_rows) = 7
    /\ Cardinality(scan_labels) > 8

\* the most recently created snapshot of the log: the greatest created_at,
\* and among equals the one appended last
C13_Latest ==
    CHOOSE i \in DOMAIN ml_models :
        \A j \in DOMAIN ml_models :
            \/ ml_models[i].created_at > ml_models[j].created_at
            \/ ml_models[i].created_at = ml_models[j].created_at /\ i >= j

\* C13: after construction and after every successful training the active
\* model is the most recently created snapshot of the model-version log (none
\* when the log is empty), and every scan records the version of it.
C13_ActiveModelIsLatest ==
    /\ ml_models = <<>> => ml_model = None
    /\ ml_models # <<>> =>
           /\ ml_model = ml_models[C13_Latest].model_payload
           /\ C13_Latest = Len(ml_models)
    /\ ret.op = "scan_package" =>
           ret.value.ml_model_version =
               (IF ml_models = <<>> THEN NoneNum ELSE ml_models[C13_Latest].model_version)
    /\ (ret.op = "train_supervised_model" /\ ret.raised = "") =>
           /\ ml_models # <<>>
           /\ ret.value.model_version = ml_models[C13_Latest].model_version

\* a scan made after a training that followed two stored snapshots
C13_Witness ==
    /\ ret.op = "scan_package"
    /\ Len(ml_models) = 3
    /\ ml_models[3].created_at = 1
    /\ ret.value.ml_model_version = 1
    /\ ml_models[2].model_version # 1
    /\ ret.value.ml_risk_score # NoneNum

\* the feature names of the current baseline
C14_Names == {r.feature_name : r \in model_baseline}

\* the step is a call of rebuild_baseline
C14_IsRebuild == ret'.op = "rebuild_baseline" /\ now' = now

\* C14 as stated: rebuild_baseline(max_rows) returns min(max_rows, number of
\* stored scans) and leaves six baseline rows carrying that sample count,
\* except that with no stored scan it returns 0 and leaves the baseline unchanged.
C14_Original ==
    [][C14_IsRebuild =>
           LET n == Min(ret'.args.max_rows, Len(scan_sessions))
           IN  /\ ret'.value = n
               /\ IF scan_sessions = <<>>
                  THEN model_baseline' = model_baseline
                  ELSE /\ Cardinality(model_baseline') = 6
                       /\ \A r \in model_baseline' : r.sample_size = n]_vars

\* C14: rebuild_baseline(max_rows), max_rows >= 0, returns
\* n = min(max_rows, number of stored scans); when n > 0 the baseline afterwards
\* is exactly one row per tracked feature (six), each with sample count n and
\* written by this call, and no row of the previous baseline is kept; when
\* n = 0 (no stored scan, or max_rows = 0) it returns 0 and leaves the
\* baseline unchanged.
C14_RebuildReplacesBaseline ==
    [][C14_IsRebuild =>
           LET n == Min(ret'.args.max_rows, Len(scan_sessions))
           IN  /\ ret'.value = n
               /\ UNCHANGED scan_sessions
               /\ IF n = 0
                  THEN model_baseline' = model_baseline
                  ELSE /\ Cardinality(model_baseline') = 6
                       /\ {r.feature_name : r \in model_baseline'} =
                              {NUMERIC_FIELDS[i] : i \in DOMAIN NUMERIC_FIELDS}
                       /\ \A r \in model_baseline' :
                              r.sample_size = n /\ r.updated_at = now]_vars

\* a rebuild limited to 7 rows over a log of more than 7 scans has written the baseline
C14_Witness ==
    /\ ret.op = "rebuild_baseline"
    /\ ret.args.max_rows = 7
    /\ ret.value = 7
    /\ Len(scan_sessions) > HistoryLen
    /\ Cardinality(C14_Names) = 6
    /\ \A r \in model_baseline : r.sample_size = 7

\* a rebuild with max_rows = 0 over stored scans has returned 0
C14_ZeroLimit ==
    /\ ret.op = "rebuild_baseline"
    /\ ret.args.max_rows = 0
    /\ scan_sessions # <<>>
    /\ ret.value = 0

\* the record of the scan just returned, read back from the store
C16_Record == row_to_scan_record(scan_sessions, scan_labels, ret.value.scan_id)

\* dict.get: the value a key of the record gives, None when it has no such key
C16_Get(record, key) == IF key \in DOMAIN record THEN record[key] ELSE NoneNum

\* the fields of the returned result the stored record gives back
C16_StoredFields ==
    /\ C16_Record.id = ret.value.scan_id
    /\ C16_Record.device_id = ret.value.device_id
    /\ C16_Record.package_name = ret.value.package_name
    /\ C16_Record.created_at = ret.value.timestamp_utc
    /\ C16_Record.features = ret.value.feature_vector
    /\ C16_Record.risk_score = ret.value.risk_score
    /\ C16_Record.risk_level = ret.value.risk_level
    /\ C16_Record.anomaly_score = ret.value.anomaly_score
    /\ C16_Record.anomaly_zmax = ret.value.anomaly_zmax
    /\ C16_Get(C16_Record.raw_snapshot, "component_fingerprint") = ret.value.component_fingerprint
    /\ C16_Record.reasons = ret.value.reasons
    /\ C16_Record.ioc_matches = ret.value.ioc_matches
    /\ C16_Record.attack_techniques = ret.value.attack_techniques

\* C16 as stated: the record read back for a scan gives every field of the
\* result scan_package returned, the ML probability-score and the model
\* version included.
C16_StoredFullResult ==
    ret.op = "scan_package" =>
        /\ C16_StoredFields
        /\ \/ C16_Get(C16_Record, "ml_risk_score") = ret.value.ml_risk_score
           \/ C16_Get(C16_Record.raw_snapshot, "ml_risk_score") = ret.value.ml_risk_score
        /\ \/ C16_Get(C16_Record, "ml_model_version") = ret.value.ml_model_version
           \/ C16_Get(C16_Record.raw_snapshot, "ml_model_version") = ret.value.ml_model_version

\* C16, the part the store keeps: the record read back for a scan gives the
\* device id, package, timestamp, feature vector, risk score and level,
\* anomaly score and zmax, component fingerprint, reasons, IOC matches and
\* inferred techniques of the result scan_package returned.
C16_StoredAllButMl == ret.op = "scan_package" => C16_StoredFields

\* a scan scored by an active model has been stored
C16_MlScan ==
    /\ ret.op = "scan_package"
    /\ ret.value.ml_risk_score # NoneNum
    /\ ret.value.ml_model_version # NoneNum
    /\ ret.value.scan_id = Len(scan_sessions)

(***************************************************************************)
(* Properties of the analysis functions (SpecAnalysis)                     *)
(***************************************************************************)

\* the grouping key the claim gives a record: its artifact hash if it has
\* one, else its component fingerprint if it has one, else its lowercase
\* package name
C17_Key(record) ==
    LET raw == record.raw_snapshot
        hash == IF "apk_sha256" \in DOMAIN raw THEN LowerText(Strip(raw.apk_sha256)) ELSE <<>>
    IN  IF hash # <<>> THEN <<"sha256:">> \o hash
        ELSE IF "component_fingerprint" \in DOMAIN raw
        THEN <<"fingerprint:", raw.component_fingerprint>>
        ELSE <<"package:", Lower(record.package_name)>>

\* the ids of the records of the call that have a given key
C17_Members(key) ==
    {call.records[i].id : i \in {j \in DOMAIN call.records : C17_Key(call.records[j]) = key}}

\* C17: summarize_campaigns puts each scan in exactly one group, keyed by its
\* artifact hash, else its component fingerprint, else its lowercase package
\* name, and outputs exactly the groups with at least min_cluster_size
\* members: every such group is one cluster holding all its scans, and a scan
\* of a smaller group is in no cluster.
C17_GroupsByKey ==
    ret.op = "summarize_campaigns" =>
        LET clusters == ret.value.clusters
            keys == {C17_Key(call.records[i]) : i \in DOMAIN call.records}
            large == {key \in keys : Cardinality(C17_Members(key)) >= call.min_cluster_size}
        IN  /\ {clusters[k].cluster_key : k \in DOMAIN clusters} = large
            /\ Len(clusters) = Cardinality(large)
            /\ \A k \in DOMAIN clusters :
                   /\ clusters[k].scan_ids = C17_Members(clusters[k].cluster_key)
                   /\ clusters[k].scan_count = Cardinality(clusters[k].scan_ids)
                   /\ clusters[k].device_count =
                          Cardinality({call.records[i].device_id :
                                          i \in {j \in DOMAIN call.records :
                                                    call.records[j].id \in clusters[k].scan_ids}})
            /\ \A i \in DOMAIN call.records :
                   Cardinality({k \in DOMAIN clusters :
                                   call.records[i].id \in clusters[k].scan_ids})
                       = (IF C17_Key(call.records[i]) \in large THEN 1 ELSE 0)

\* two scans sharing an artifact hash on two devices and a third scan alone
\* in its group, min_cluster_size = 2: one cluster with device_count = 2
C17_Witness ==
    /\ ret.op = "summarize_campaigns"
    /\ call.min_cluster_size = 2
    /\ Len(call.records) = 3
    /\ Len(ret.value.clusters) = 1
    /\ ret.value.clusters[1].cluster_key = <<"sha256:", "h1">>
    /\ ret.value.clusters[1].device_count = 2
    /\ ret.value.clusters[1].scan_ids = {1, 2}
    /\ call.records[1].raw_snapshot.component_fingerprint
           # call.records[2].raw_snapshot.component_fingerprint

\* the label the claim gives the two counts
C18_Label(last, prev) ==
    IF prev = 0 /\ last > 0 THEN "emerging"
    ELSE IF prev > 0 /\ 5 * (last - prev) > 2 * prev THEN "growing"
    ELSE IF prev > 0 /\ 5 * (last - prev) < 0 - 2 * prev THEN "declining"
    ELSE "stable"

\* the scans of the trailing 24 hours, counted back from the newest one
C18_Last(timestamps) ==
    Cardinality({i \in DOMAIN timestamps :
                    \A j \in DOMAIN timestamps : timestamps[i] >= timestamps[j] - DAY})

\* the scans of the 24 hours before those
C18_Prev(timestamps) ==
    Cardinality({i \in DOMAIN timestamps :
                    /\ \E j \in DOMAIN timestamps : timestamps[i] < timestamps[j] - DAY
                    /\ \A j \in DOMAIN timestamps : timestamps[i] >= timestamps[j] - 2 * DAY})

\* C18: the trend label follows from the number of scans in the trailing 24
\* hours (last) and in the 24 hours before (prev): emerging when prev = 0 and
\* last > 0, otherwise growing when (last - prev) / prev > 0.4, declining when
\* (last - prev) / prev < -0.4, and stable in every other case; each cluster
\* carries the label of its own two counts.
C18_TrendFromCounts ==
    /\ ret.op = "trend_label" =>
           /\ ret.value.last_count = C18_Last(call.timestamps)
           /\ ret.value.prev_count = C18_Prev(call.timestamps)
           /\ ret.value.trend = C18_Label(ret.value.last_count, ret.value.prev_count)
    /\ ret.op = "summarize_campaigns" =>
           \A k \in DOMAIN ret.value.clusters :
               LET cluster == ret.value.clusters[k]
                   timestamps == [i \in cluster.scan_ids |-> call.records[i].created_at]
               IN  /\ cluster.scans_last_24h = C18_Last(timestamps)
                   /\ cluster.scans_prev_24h = C18_Prev(timestamps)
                   /\ cluster.trend = C18_Label(cluster.scans_last_24h, cluster.scans_prev_24h)

\* seven scans after five: the ratio is exactly 0.4 and the trend is stable
C18_Witness ==
    /\ ret.op = "trend_label"
    /\ ret.value.last_count = 7
    /\ ret.value.prev_count = 5
    /\ ret.value.trend = "stable"
    /\ Len(call.timestamps) > 12

\* three scans after five: the ratio is exactly -0.4
C18_DecliningEdge ==
    /\ ret.op = "trend_label"
    /\ ret.value.last_count = 3
    /\ ret.value.prev_count = 5
    /\ ret.value.trend = "stable"

\* the cluster keys of a run with the campaign ids they got
C19_Ids(records) ==
    LET clusters == summarize_campaigns(records, call.min_cluster_size).clusters
    IN  {<<clusters[k].cluster_key, clusters[k].campaign_id>> : k \in DOMAIN clusters}

\* the devices, or the packages, of the scans of a cluster
C19_Values(cluster, field) ==
    {call.records[i][field] : i \in {j \in DOMAIN call.records :
                                        call.records[j].id \in cluster.scan_ids}}

\* C19: campaign_id depends only on the grouping key, the sorted devices and
\* the sorted packages of the cluster: summarize_campaigns gives every cluster
\* the same campaign_id whatever the order of the records, and no two
\* clusters of one run have the same grouping key.
C19_CampaignIdDeterministic ==
    ret.op = "summarize_campaigns" =>
        LET clusters == ret.value.clusters
        IN  /\ \A k \in DOMAIN clusters :
                   clusters[k].campaign_id =
                       campaign_id(<<clusters[k].cluster_key,
                                     SortedSeq(C19_Values(clusters[k], "device_id")),
                                     SortedSeq(C19_Values(clusters[k], "package_name"))>>)
            /\ \A p \in Permutations(DOMAIN call.records) :
                   C19_Ids([i \in DOMAIN call.records |-> call.records[p[i]]])
                       = C19_Ids(call.records)
            /\ \A k \in DOMAIN clusters : \A l \in DOMAIN clusters :
                   clusters[k].cluster_key = clusters[l].cluster_key => k = l

\* a run with two clusters, one of them over scans given with the devices
\* in descending order
C19_Witness ==
    /\ ret.op = "summarize_campaigns"
    /\ Len(ret.value.clusters) = 2
    /\ Len(call.records) = 3
    /\ call.records[1].device_id = "B"
    /\ call.records[2].device_id = "A"
    /\ \E k \in DOMAIN ret.value.clusters :
           /\ ret.value.clusters[k].scan_ids = {1, 2}
           /\ ret.value.clusters[k].devices = <<"A", "B">>

\* the objects of the bundle of a given type
C20_Objects(stix_type) ==
    {k \in DOMAIN ret.value.objects : ret.value.objects[k].type = stix_type}

\* whether a scan record has an artifact hash
C20_HasHash(record) ==
    /\ "apk_sha256" \in DOMAIN record.raw_snapshot
    /\ Strip(record.raw_snapshot.apk_sha256) # <<>>

\* the IOC matches of a record that are not artifact-hash matches
C20_NonHashIocs(record) ==
    {i \in DOMAIN record.ioc_matches :
        ~(record.ioc_matches[i] # <<>> /\ record.ioc_matches[i][1] = "sha256:")}

\* the technique ids of a record
C20_Techniques(record) == {record.attack_techniques[i] : i \in DOMAIN record.attack_techniques}

\* the relationships of a given type from one object to another
C20_Relationships(relationship_type, source_ref, target_ref) ==
    {k \in C20_Objects("relationship") :
        /\ ret.value.objects[k].relationship_type = relationship_type
        /\ ret.value.objects[k].source_ref = source_ref
        /\ ret.value.objects[k].target_ref = target_ref}

\* the indicators with a given first label that have one relationship of the
\* given type to the given observed-data object
C20_Indicators(label, relationship_type, observed_id) ==
    {k \in C20_Objects("indicator") :
        /\ ret.value.objects[k].labels[1] = label
        /\ Cardinality(C20_Relationships(relationship_type, ret.value.objects[k].id,
                                         observed_id)) = 1}

\* C20: the bundle holds exactly one identity; for each scan one observed-data
\* and one note; one indicator with its relationship when the scan has an
\* artifact hash; one indicator with its relationship for each IOC match that
\* is not a hash match; one attack-pattern for each distinct technique id of
\* the export, with one relationship from each observed-data that has the
\* technique; nothing else; and every relationship joins two objects of the
\* bundle.
C20_BundleObjects ==
    ret.op = "build_stix_lite_bundle" =>
        LET objects == ret.value.objects
            records == call.records
            all_techniques == UNION {C20_Techniques(records[i]) : i \in DOMAIN records}
            Observed(i) == {k \in C20_Objects("observed-data") : objects[k].x_scan_id = records[i].id}
            ObservedId(i) == objects[CHOOSE k \in Observed(i) : TRUE].id
            Pattern(t) == {k \in C20_Objects("attack-pattern") :
                              objects[k].x_attack_technique_id = t}
        IN  /\ Cardinality(C20_Objects("identity")) = 1
            /\ Cardinality(C20_Objects("observed-data")) = Len(records)
            /\ Cardinality(C20_Objects("note")) = Len(records)
            /\ Cardinality(C20_Objects("attack-pattern")) = Cardinality(all_techniques)
            /\ \A k \in DOMAIN objects : \A l \in DOMAIN objects :
                   objects[k].id = objects[l].id => k = l
            /\ \A i \in DOMAIN records :
                   /\ Cardinality(Observed(i)) = 1
                   /\ Cardinality({k \in C20_Objects("note") :
                                      objects[k].object_refs = <<ObservedId(i)>>}) = 1
                   /\ Cardinality(C20_Indicators("apk-hash", "based-on", ObservedId(i)))
                          = (IF C20_HasHash(records[i]) THEN 1 ELSE 0)
                   /\ Cardinality(C20_Indicators("ioc", "related-to", ObservedId(i)))
                          = Cardinality(C20_NonHashIocs(records[i]))
                   /\ \A t \in all_techniques :
                          /\ Cardinality(Pattern(t)) = 1
                          /\ Cardinality(C20_Relationships(
                                 "related-to", ObservedId(i),
                                 objects[CHOOSE k \in Pattern(t) : TRUE].id))
                                 = (IF t \in C20_Techniques(records[i]) THEN 1 ELSE 0)
            /\ Len(objects) =
                   1 + Cardinality(all_techniques)
                     + SeqSum([i \in DOMAIN records |->
                                  2 + (IF C20_HasHash(records[i]) THEN 2 ELSE 0)
                                    + 2 * Cardinality(C20_NonHashIocs(records[i]))
                                    + Cardinality(C20_Techniques(records[i]))])
            /\ \A k \in C20_Objects("relationship") :
                   /\ \E l \in DOMAIN objects : objects[l].id = objects[k].source_ref
                   /\ \E l \in DOMAIN objects : objects[l].id = objects[k].target_ref

\* the export of one scan with an artifact hash, one IOC match that is not a
\* hash match and one technique: 9 objects
C20_Witness ==
    /\ ret.op = "build_stix_lite_bundle"
    /\ Len(call.records) = 1
    /\ C20_HasHash(call.records[1])
    /\ Cardinality(C20_NonHashIocs(call.records[1])) = 1
    /\ Len(call.records[1].attack_techniques) = 1
    /\ Len(ret.value.objects) = 9
    /\ Cardinality(C20_Objects("relationship")) = 3

\* the export of two scans that share a technique and of which one has a
\* hash match among its IOC matches
C20_SharedTechnique ==
    /\ ret.op = "build_stix_lite_bundle"
    /\ Len(call.records) = 2
    /\ Cardinality(C20_Objects("attack-pattern")) = 2
    /\ Cardinality(C20_Objects("relationship")) = 2 + 3 + 3
    /\ Cardinality(C20_NonHashIocs(call.records[2])) < Len(call.records[2].ioc_matches)

(***************************************************************************)
(* Properties of the two logs (SpecLog)                                    *)
(***************************************************************************)

\* C15: the scan log and the model-version log only grow: a scan is stored
\* under an identity greater than that of every scan stored before, and no
\* operation (scan, label, IOC sync, baseline rebuild, training, campaign
\* analysis, export) changes or removes an entry either log holds.
C15_LogsAppendOnly ==
    [][/\ Len(scan_sessions') >= Len(scan_sessions)
       /\ \A id \in DOMAIN scan_sessions : scan_sessions'[id] = scan_sessions[id]
       /\ Len(ml_models') >= Len(ml_models)
       /\ \A id \in DOMAIN ml_models : ml_models'[id] = ml_models[id]
       /\ ret'.op = "scan_package" =>
              /\ ret'.value.scan_id = Len(scan_sessions')
              /\ \A id \in DOMAIN scan_sessions : ret'.value.scan_id > id
              /\ Len(scan_sessions') = Len(scan_sessions) + 1
       /\ ret'.op # "scan_package" => scan_sessions' = scan_sessions
       /\ ret'.op # "train_supervised_model" => ml_models' = ml_models]_vars

\* both logs have grown in this session, and the scans have since been
\* labeled, analysed or exported
C15_Witness ==
    /\ Len(scan_sessions) > HistoryLen
    /\ Len(ml_models) > 2
    /\ ret.op \in {"analyze_campaigns", "export_stix_lite", "label_latest_scan_for_package"}
    /\ model_baseline # {}
    /\ ioc_signatures # <<>>

(***************************************************************************)
(* C21  The component fingerprint depends only on the logical content:    *)
(* inspecting the same package again with the lines of the inspection     *)
(* text, or the permissions inside a line, in another order gives the     *)
(* same component summary and the identical digest.                       *)
(***************************************************************************)
C21_Reordered == ret'.op \in {"reorder_lines", "reorder_permissions"}

C21_FingerprintIgnoresOrder ==
    [][C21_Reordered => ret'.value = ret.value /\ ret'.summary = ret.summary]_vars

\* a reordering that changed the order in which the permissions are found
C21_Witness ==
    /\ ret.op \in {"reorder_lines", "reorder_permissions"}
    /\ Cardinality(ret.value.permissions) >= 2
    /\ findall_permissions(JoinLines(ret.before)) # findall_permissions(JoinLines(call.lines))
    /\ ret.value.apk_sha256 # <<>>

(***************************************************************************)
(* C28  The exported-true count of the component summary equals the       *)
(* number of occurrences of exported=true (any letter case, optional      *)
(* whitespace around "=") in the inspection text, so a snapshot with one  *)
(* more exported component has another summary and another fingerprint.   *)
(***************************************************************************)
C28_Occurrences ==
    LET dumpsys == JoinLines(call.lines)
    IN  Cardinality({i \in DOMAIN dumpsys :
                        Lower(dumpsys[i]) \in {"exported=true", "exported = true"}})

C28_ExportedTrueCount ==
    ret.op \in FingerprintOps => ret.summary.exported_true_hits = C28_Occurrences

\* what the code does instead: one more exported component, printed as
\* exported=true, leaves the summary and the digest as they were
C28_ExportedNotCounted ==
    [][ret'.op = "more_exported" => ret'.value = ret.value /\ ret'.summary = ret.summary]_vars

C28_PlainExported ==
    /\ ret.op = "more_exported"
    /\ C28_Occurrences >= 2
    /\ ret.summary.exported_true_hits = 0

(***************************************************************************)
(* C24  When no artifact path is found, or pulling or hashing the         *)
(* artifact raises, scan_package still stores and returns a result: the   *)
(* stored snapshot has a non-empty apk_pull_error, an empty apk_sha256     *)
(* and apk_size_bytes 0, and the feature vector has apk_hash_present 0    *)
(* and apk_size_kb 0.                                                     *)
(***************************************************************************)
C24_ArtifactFailed ==
    /\ ret.op = "scan_package"
    /\ RemotePaths(ret.adb.pm_path) = <<>> \/ ret.adb.pull.raised

C24_Stored == scan_sessions[Len(scan_sessions)]

C24_FailedArtifactStillScanned ==
    C24_ArtifactFailed =>
        /\ ret.raised = ""
        /\ ret.value.scan_id = Len(scan_sessions)
        /\ C24_Stored.raw_snapshot.apk_pull_error # ""
        /\ C24_Stored.raw_snapshot.apk_sha256 = <<>>
        /\ C24_Stored.raw_snapshot.apk_size_bytes = 0
        /\ ret.value.feature_vector.apk_hash_present = 0
        /\ ret.value.feature_vector.apk_size_kb = 0
        /\ C24_Stored.features = ret.value.feature_vector

\* a pull that raised after part of the file had arrived
C24_Witness ==
    /\ C24_ArtifactFailed
    /\ RemotePaths(ret.adb.pm_path) # <<>>
    /\ ret.adb.pull.size_bytes > 0
    /\ C24_Stored.raw_snapshot.apk_remote_path = "/data/app/a/base.apk"

(***************************************************************************)
(* C25  A corrupted stored JSON blob never aborts a batch read:           *)
(* get_scan_records and get_scan_records_by_ids return one record for     *)
(* every selected row, the damaged field of a damaged row being an empty  *)
(* structure and every other field and row decoded as stored.             *)
(***************************************************************************)
C25_IsRead == ret.op \in {"get_scan_records", "get_scan_records_by_ids"}

C25_DamageOf ==
    [id \in DOMAIN scan_sessions |->
        [column \in JsonColumns |-> Blob(ret.damaged, id, column, None).damage]]

C25_Degraded ==
    /\ Len(ret.value) = Len(ret.selected)
    /\ \A k \in DOMAIN ret.selected :
          LET id == ret.selected[k]
              stored == row_to_scan_record(scan_sessions, scan_labels, id)
              record == ret.value[k]
          IN  /\ record.id = id
              /\ record.created_at = stored.created_at
              /\ record.package_name = stored.package_name
              /\ record.risk_score = stored.risk_score
              /\ record.label = stored.label
              /\ \A column \in JsonColumns :
                    IF C25_DamageOf[id][column] = "intact"
                    THEN record[column] = stored[column]
                    ELSE DOMAIN record[column] = {}
              /\ IF C25_DamageOf[id]["raw_snapshot"] = "intact"
                 THEN record.attack_techniques = stored.attack_techniques
                 ELSE record.attack_techniques = <<>>

C25_BatchReadNeverAborts == C25_IsRead => ret.raised = "" /\ C25_Degraded

\* what the code does: a column whose text does not parse degrades, a snapshot
\* column whose text parses to something that is not a dict aborts the read
C25_NullAmongSelected ==
    \E k \in DOMAIN ret.selected : C25_DamageOf[ret.selected[k]]["raw_snapshot"] = "null"

C25_OnlyUnparseable ==
    \A k \in DOMAIN ret.selected : \A column \in JsonColumns :
        C25_DamageOf[ret.selected[k]][column] # "null"

C25_UnparseableDegrades ==
    C25_IsRead =>
        /\ ret.raised = (IF C25_NullAmongSelected THEN "AttributeError" ELSE "")
        /\ C25_OnlyUnparseable => C25_Degraded

C25_Witness ==
    /\ C25_IsRead
    /\ Len(ret.selected) >= 2
    /\ C25_NullAmongSelected
    /\ ret.raised = "AttributeError"

C25_TruncatedRead ==
    /\ C25_IsRead
    /\ Len(ret.selected) >= 2
    /\ C25_OnlyUnparseable
    /\ C25_DamageOf[ret.selected[1]]["raw_snapshot"] = "truncated"
    /\ C25_DamageOf[ret.selected[2]]["raw_snapshot"] = "intact"
    /\ ret.value[1].raw_snapshot = EmptyDict
    /\ ret.value[2].raw_snapshot = scan_sessions[ret.selected[2]].raw_snapshot

(***************************************************************************)
(* C26  After any sequence of pipeline operations every label of the      *)
(* label set refers to a scan id that exists in the scan log: label_scan  *)
(* with an id the Store never assigned creates no label.                  *)
(***************************************************************************)
C26_LabelsReferToScans == \A r \in scan_labels : r.scan_id \in DOMAIN scan_sessions

\* what the code guarantees: label_latest_scan_for_package writes labels for
\* stored scans only
C26_LabelLatestRefersToScans ==
    [][ret'.op = "label_latest_scan_for_package" =>
          \A r \in scan_labels' \ scan_labels : r.scan_id \in DOMAIN scan_sessions]_vars

\* label_scan returned normally and left a label on an id beyond the scan log
C26_DanglingLabel ==
    /\ ret.op = "label_scan"
    /\ ret.raised = ""
    /\ \E r \in scan_labels : r.scan_id = Len(scan_sessions) + 1 /\ r.label = ret.label

(***************************************************************************)
(* C22  Under any interleaving of store operations issued by concurrent   *)
(* callers each operation takes effect as one transaction and the state   *)
(* is never corrupted: at most one transaction has uncommitted writes,    *)
(* concurrent store_scan calls receive distinct ids and all their scans   *)
(* are present afterwards, a committed rebuild leaves the six rows of one *)
(* rebuild, and concurrent labelings of one scan leave exactly one label, *)
(* equal to one of the written values.                                    *)
(***************************************************************************)
C22_Scans == {t \in Threads : Done(t, "scan_package")}

C22_Labelings == {t \in Threads : Done(t, "label_latest_scan_for_package")}

C22_Rebuilds == {t \in Threads : Done(t, "rebuild_baseline")}

C22_Transactions ==
    /\ Cardinality({t \in Threads : Len(Th(t).local.pending) > 0}) <= 1
    /\ \A t \in C22_Scans :
          LET result == Th(t).result.value
          IN  /\ result.scan_id \in DOMAIN scan_sessions
              /\ scan_sessions[result.scan_id] =
                     ScanRow(result, RawSnapshot(Th(t).args.snapshot, result))
              /\ \A u \in C22_Scans \ {t} : Th(u).result.value.scan_id # result.scan_id
    /\ \A id \in {r.scan_id : r \in scan_labels} :
          Cardinality({r \in scan_labels : r.scan_id = id}) = 1
    /\ \A t \in C22_Labelings :
          \E r \in scan_labels :
              /\ r.scan_id = Th(t).result.value
              /\ r.label \in {Th(u).args.label : u \in C22_Labelings}
    /\ C22_Rebuilds # {} => \E t \in C22_Rebuilds : model_baseline = Th(t).local.rows

\* two scans stored by concurrent callers
C22_Witness ==
    /\ C22_Scans = Threads
    /\ {Th(t).result.value.scan_id : t \in Threads} = {HistoryLen + 1, HistoryLen + 2}

\* two concurrent labelings of one scan with different values
C22_WitnessLabels ==
    /\ C22_Labelings = Threads
    /\ Th("t1").args.label # Th("t2").args.label
    /\ Th("t1").result.value = Th("t2").result.value

(***************************************************************************)
(* C23  Baseline rebuild is atomic for readers: the baseline a            *)
(* scan_package loads while rebuild_baseline runs is the complete         *)
(* previous baseline or the complete set of rows of one rebuild, never a  *)
(* mix, and the scan's anomaly score is the evaluation against it.        *)
(***************************************************************************)
C23_Readers ==
    {t \in Threads : Th(t).op = "scan_package" /\ Th(t).pc \notin {"match_iocs", "load_baseline"}}

C23_Complete ==
    {call.previous_baseline}
        \cup {Th(u).local.rows : u \in {x \in Threads : Done(x, "rebuild_baseline")}}

C23_ReaderSeesOneBaseline ==
    \A t \in C23_Readers :
        /\ Th(t).local.baseline_table \in C23_Complete
        /\ Done(t, "scan_package") =>
              LET result == Th(t).result.value
                  anomaly == anomaly_evaluate(result.feature_vector,
                                              load_baseline(Th(t).local.baseline_table))
              IN  result.anomaly_score = (IF anomaly = None THEN NoneNum ELSE anomaly.score)

\* a reader that loaded the previous baseline while a rebuild has written some of
\* its rows and not yet committed
C23_Witness ==
    \E t \in C23_Readers : \E u \in Threads :
        /\ Th(t).pc = "check_model"
        /\ Th(u).op = "rebuild_baseline"
        /\ Len(Th(u).local.pending) >= 1
        /\ Len(Th(u).local.todo) >= 1
        /\ Th(t).local.baseline_table = call.previous_baseline
        /\ call.previous_baseline # {}

(***************************************************************************)
(* C27  label_latest_scan_for_package returns None and writes no label    *)
(* when the package has no stored scan; otherwise the scan it labels and  *)
(* returns is the most recent scan of the package at the moment the label *)
(* is written, also when a scan of the package is stored between its      *)
(* lookup and its write.                                                  *)
(***************************************************************************)
C27_Labelings == {t \in Threads : Done(t, "label_latest_scan_for_package")}

C27_LabelsLatestAtWrite ==
    \A t \in C27_Labelings :
        IF get_latest_scan_id_for_package(History, Th(t).args.package_name) = NoneNum
        THEN Th(t).result.value = NoneNum /\ scan_labels = StoredLabels
        ELSE Th(t).result.value = Th(t).result.latest_at_write

\* what the code guarantees: the labeled scan is a stored scan of the package,
\* the one that was the latest when it was looked up
C27_LabelsScanOfPackage ==
    \A t \in C27_Labelings :
        /\ Th(t).result.value \in DOMAIN scan_sessions
        /\ scan_sessions[Th(t).result.value].package_name = Th(t).args.package_name
        /\ Th(t).result.value <= Th(t).result.latest_at_write
        /\ \E r \in scan_labels : r.scan_id = Th(t).result.value

\* a scan of the package was stored between the lookup and the write
C27_StaleLabel ==
    \E t \in C27_Labelings :
        /\ Th(t).result.value = HistoryLen
        /\ Th(t).result.latest_at_write = HistoryLen + 1
        /\ \E u \in Threads : Done(u, "scan_package") /\ Th(u).result.value.scan_id = HistoryLen + 1

(***************************************************************************)
(* C29  In every scan result that carries an ML score, ml_model_version   *)
(* is the version of the very model whose predict_proba produced          *)
(* ml_risk_score, also when train_supervised_model replaces the active    *)
(* model from another thread while scan_package is running.               *)
(***************************************************************************)
C29_MlScans ==
    {t \in Threads : Done(t, "scan_package") /\ Th(t).result.value.ml_risk_score # NoneNum}

C29_VersionOfScoringModel ==
    \A t \in C29_MlScans :
        LET result == Th(t).result.value
            model == Th(t).local.predicted
        IN  /\ result.ml_risk_score =
                   RoundHalfEven(predict_proba(model, result.feature_vector), 100)
            /\ result.ml_model_version = model.version

\* what the code guarantees: the score comes from a model that was active during
\* the scan, and the version is that of a model that was active during the scan
C29_VersionOfSomeActiveModel ==
    \A t \in C29_MlScans :
        LET result == Th(t).result.value
            active == {StoredModel.model_payload}
                          \cup {Th(u).local.model :
                                   u \in {x \in Threads : Done(x, "train_supervised_model")}}
        IN  /\ Th(t).local.predicted \in active
            /\ result.ml_risk_score =
                   RoundHalfEven(predict_proba(Th(t).local.predicted, result.feature_vector), 100)
            /\ result.ml_model_version \in {m.version : m \in active}

\* the score of the stored model under the version of the model trained meanwhile
C29_TornResult ==
    \E t \in C29_MlScans : \E u \in Threads :
        /\ Done(u, "train_supervised_model")
        /\ Th(u).result.raised = ""
        /\ Th(t).local.predicted = StoredModel.model_payload
        /\ Th(t).result.value.ml_model_version = Th(u).local.model.version

(***************************************************************************)
(* C30  When two train_supervised_model calls run concurrently on one     *)
(* pipeline, once both have completed the pipeline's active model is the  *)
(* snapshot that is most recent in the store's model-version log.         *)
(***************************************************************************)
C30_BothTrained ==
    \A t \in Threads : Done(t, "train_supervised_model") /\ Th(t).result.raised = ""

C30_ActiveIsLatestSnapshot == C30_BothTrained => ml_model = load_latest_ml_model(ml_models)

\* what the code guarantees: the active model is one of the two stored snapshots
C30_ActiveIsAStoredSnapshot ==
    C30_BothTrained =>
        /\ \E i \in DOMAIN ml_models : ml_models[i].model_payload = ml_model
        /\ ml_model \in {Th(t).local.model : t \in Threads}
        /\ Len(ml_models) = 4

\* both trainings done, the active model older than the latest snapshot
C30_OutOfStep ==
    /\ C30_BothTrained
    /\ ml_model.version < get_latest_ml_model(ml_models).model_version

=============================================================================
